---- MODULE Spec2Model ----
(***************************************************************************)
(* Gemini title generator for Obsidian: the per-document pipeline          *)
(* (read, generateTitle, updateNoteTitle), its five entry points and the   *)
(* two batch runs (files-menu batch, startup auto-update batch).           *)
(*                                                                         *)
(* Two versions of the plugin are modelled.  "textrank" is src/main.ts     *)
(* (extraction through the ts-textrank summarizer, startup batch, leaf     *)
(* change handler); "simple" is src/unnamed/part_000 (extraction by a      *)
(* plain split on sentence terminators, menus and command only).           *)
(*                                                                         *)
(* Text is a sequence of one-character strings.                            *)
(***************************************************************************)
EXTENDS Integers, Sequences, FiniteSets, TLC

\* ------------------------------------------------------------------ bounds

\* Longest document, in fragments, the extraction specification draws.
MaxFrags == 3
\* Largest configured sentence count.
MaxK == 2
\* Files of the vault.
NumFiles == 2
\* Operations (a single-note handler, a batch) in flight at one time.
MaxOps == 1
\* Longest batch (selected files, open untitled leaves).
MaxBatchLen == 2
MaxSentences == 3

\* ------------------------------------------------------- program constants

\* substring(0, 500) of the fallback context.
FallbackLen == 500
\* s.split(/\s+/).length >= 3 of the simple variant.
MinWords == 3

\* -------------------------------------------------------------------- text

Min(a, b) == IF a < b THEN a ELSE b

\* Characters String.prototype.trim() removes and /\s/ matches.
Whitespace == {" ", "\n", "\t", "\r"}

\* Sentence terminators of the simple variant's split(/[.?!]/g).
Terminators == {".", "?", "!"}

\* s.substring(0, n)
Substring(s, n) == SubSeq(s, 1, Min(n, Len(s)))

\* s.trim(): s without its leading and trailing whitespace.
TrimAt(s, idx) ==
    IF idx = {} THEN <<>>
    ELSE SubSeq(s, CHOOSE i \in idx : \A j \in idx : i <= j,
                   CHOOSE i \in idx : \A j \in idx : j <= i)

Trim(s) == TrimAt(s, {i \in 1..Len(s) : s[i] \notin Whitespace})

\* s.split(c) for a set of one-character separators: the pieces between
\* separators, empty pieces included, Cardinality(separators in s) + 1 of them.
RECURSIVE SplitOn(_, _)
SplitAt(s, seps, idx) ==
    IF idx = {} THEN <<s>>
    ELSE <<SubSeq(s, 1, (CHOOSE i \in idx : \A j \in idx : i <= j) - 1)>>
         \o SplitOn(SubSeq(s, (CHOOSE i \in idx : \A j \in idx : i <= j) + 1, Len(s)), seps)

SplitOn(s, seps) == SplitAt(s, seps, {i \in 1..Len(s) : s[i] \in seps})

\* parts.join(sep)
RECURSIVE Join(_, _)
Join(parts, sep) ==
    IF Len(parts) = 0 THEN <<>>
    ELSE IF Len(parts) = 1 THEN parts[1]
    ELSE parts[1] \o sep \o Join(Tail(parts), sep)

\* parts.filter(P), as a selection by index set.
RECURSIVE Filter(_, _)
Filter(parts, keep) ==
    IF Len(parts) = 0 THEN <<>>
    ELSE (IF parts[1] \in keep THEN <<parts[1]>> ELSE <<>>)
         \o Filter(Tail(parts), keep)

\* s.split(/\s+/).length for a trimmed, non-empty s: the maximal runs of
\* whitespace inside s, plus one.
WordCount(s) ==
    Cardinality({i \in 2..Len(s) : s[i] \in Whitespace /\ s[i-1] \notin Whitespace}) + 1

\* /^!\[\[.*]]$/.test(line): starts with "![[", ends with "]]", and holds no
\* line terminator in between ("." does not match one).
ImageEmbeddingRegexTest(line) ==
    /\ Len(line) >= 5
    /\ SubSeq(line, 1, 3) = <<"!", "[", "[">>
    /\ SubSeq(line, Len(line) - 1, Len(line)) = <<"]", "]">>
    /\ \A i \in 4..(Len(line) - 2) : line[i] \notin {"\n", "\r"}

\* lines.filter(line => !imageEmbeddingRegex.test(line.trim())).join('\n')
FilteredLines(lines) ==
    Join(Filter(lines, {l \in {lines[i] : i \in 1..Len(lines)} :
                          ~ImageEmbeddingRegexTest(Trim(l))}),
         <<"\n">>)

\* noteContent without its image-embedding lines (main.ts).
ProcessedNoteContent(noteContent) == FilteredLines(SplitOn(noteContent, {"\n"}))

\* ------------------------------------------------------------ extraction

\* The two modelled versions of the plugin.
Variants == {"textrank", "simple"}

\* The simple variant's validSentences: the pieces of split(/[.?!]/g), trimmed,
\* the empty ones dropped, those of fewer than three words dropped.
TrimAll(parts) == [i \in 1..Len(parts) |-> Trim(parts[i])]

NonEmpty(parts) == Filter(parts, {x \in {parts[i] : i \in 1..Len(parts)} : Len(x) > 0})

SplitSentences(text) == NonEmpty(TrimAll(SplitOn(text, Terminators)))

EnoughWords(parts) ==
    Filter(parts, {x \in {parts[i] : i \in 1..Len(parts)} : WordCount(x) >= MinWords})

ValidSentences(noteContent) == EnoughWords(SplitSentences(noteContent))

\* What summarizer.summarize(processedNoteContent, "en") of the ts-textrank
\* library can answer: it throws, or it returns at most K of the text's
\* sentences in their order of occurrence (Summarizer.SORT_OCCURENCE), none
\* included.  The library is not part of the repository; every selection is
\* taken to be possible.
RECURSIVE Pick(_, _, _)
Pick(parts, chosen, i) ==
    IF i > Len(parts) THEN <<>>
    ELSE (IF i \in chosen THEN <<parts[i]>> ELSE <<>>) \o Pick(parts, chosen, i + 1)

Selections(cand, K) ==
    {[throws |-> TRUE, sentences |-> <<>>]}
    \cup {[throws |-> FALSE, sentences |-> Pick(cand, c, 1)] :
            c \in {d \in SUBSET (1..Len(cand)) : Cardinality(d) <= K}}

SummarizerOutcomes(text, K) == Selections(SplitSentences(text), K)

\* The answers of the summarization engine as designed: of the N sentences of
\* three words or more, the K best ranked, all N when N < K, in their order
\* of occurrence.  The ranking is left open.
EngineSelections(text, K) ==
    { Pick(ValidSentences(text), c, 1) :
        c \in { d \in SUBSET (1..Len(ValidSentences(text))) :
                  Cardinality(d) = Min(K, Len(ValidSentences(text))) } }

\* A fallback that is always cut from the filtered text.
AlwaysFiltered(processed, noteContent) == Substring(processed, FallbackLen)

\* A fallback that gives nothing.
NoFallback(processed, noteContent) == <<>>

\* Fallback context of main.ts: the first 500 characters of the filtered
\* text, or of the original text when the filtered text trims to nothing.
FallbackOf(processed, noteContent) ==
    IF Trim(processed) # <<>> THEN Substring(processed, FallbackLen)
    ELSE Substring(noteContent, FallbackLen)

FallbackContext(noteContent) ==
    FallbackOf(ProcessedNoteContent(noteContent), noteContent)

RECURSIVE Reverse(_)
Reverse(parts) == IF Len(parts) = 0 THEN <<>> ELSE Reverse(Tail(parts)) \o <<Head(parts)>>

\* A context whose sentences come in another order than the summarizer's.
FirstContextReordered(noteContent, summ) ==
    IF summ.throws
      THEN [notices |-> <<"extractionErrorFallback">>,
            ctx |-> FallbackContext(noteContent), fallback |-> TRUE]
    ELSE IF Len(summ.sentences) > 0
      THEN [notices |-> <<>>,
            ctx |-> Join(Reverse(summ.sentences), <<" ">>), fallback |-> FALSE]
    ELSE [notices |-> <<"noSentencesFallback">>,
          ctx |-> FallbackContext(noteContent), fallback |-> TRUE]

\* The context the summarizer's answer gives (main.ts): its sentences joined
\* by a space, or the fallback with its notice.
FirstContext(noteContent, summ) ==
    IF summ.throws
      THEN [notices |-> <<"extractionErrorFallback">>,
            ctx |-> FallbackContext(noteContent), fallback |-> TRUE]
    ELSE IF Len(summ.sentences) > 0
      THEN [notices |-> <<>>,
            ctx |-> Join(summ.sentences, <<" ">>), fallback |-> FALSE]
    ELSE [notices |-> <<"noSentencesFallback">>,
          ctx |-> FallbackContext(noteContent), fallback |-> TRUE]

\* A final check that looks at the filtered text: a note of image lines only
\* counts as empty.
CheckFiltered(first, noteContent) ==
    IF Len(Trim(first.ctx)) = 0 \/ Len(Trim(ProcessedNoteContent(noteContent))) = 0
      THEN [notices |-> first.notices \o <<"noteEmpty">>,
            ctx |-> first.ctx, fallback |-> first.fallback, call |-> FALSE]
      ELSE [notices |-> first.notices, ctx |-> first.ctx,
            fallback |-> first.fallback, call |-> TRUE]

\* An extraction without its final check: the oracle is called whatever the
\* context.
AlwaysCall(first, noteContent) ==
    [notices |-> first.notices, ctx |-> first.ctx, fallback |-> first.fallback,
     call |-> TRUE]

\* if (!extractedSentences || extractedSentences.trim().length === 0) of
\* main.ts.  call = TRUE: the oracle is called with ctx.
CheckContext(first, noteContent) ==
    IF Len(Trim(first.ctx)) = 0
      THEN [notices |-> first.notices \o
                        (IF Len(Trim(noteContent)) = 0 THEN <<"noteEmpty">>
                         ELSE <<"noContent">>),
            ctx |-> first.ctx, fallback |-> first.fallback, call |-> FALSE]
      ELSE [notices |-> first.notices, ctx |-> first.ctx,
            fallback |-> first.fallback, call |-> TRUE]

\* Step 1 of generateTitle in main.ts.
ExtractTextrank(noteContent, summ) ==
    CheckContext(FirstContext(noteContent, summ), noteContent)

\* if (!extractedSentences || extractedSentences.trim().length === 0) of
\* part_000.
CheckContextSimple(notices, ctx, fallback) ==
    IF Len(Trim(ctx)) = 0
      THEN [notices |-> notices \o <<"noContent">>, ctx |-> ctx,
            fallback |-> fallback, call |-> FALSE]
      ELSE [notices |-> notices, ctx |-> ctx, fallback |-> fallback, call |-> TRUE]

\* A context of all the valid sentences, without the slice.
SimpleContextAll(valid, K) == Join(valid, <<".", " ">>) \o <<".">>

\* sentencesToUse.join('. ') + '.' of the first K valid sentences.
SimpleContext(valid, K) ==
    Join(SubSeq(valid, 1, Min(K, Len(valid))), <<".", " ">>) \o <<".">>

ExtractFromValid(valid, noteContent, K) ==
    IF Len(valid) > 0
      THEN CheckContextSimple(<<>>, SimpleContext(valid, K), FALSE)
    ELSE IF Len(Trim(noteContent)) = 0
      THEN [notices |-> <<"noteEmpty">>, ctx |-> <<>>,
            fallback |-> FALSE, call |-> FALSE]
    ELSE CheckContextSimple(<<"noSentencesFallback">>,
                            Substring(noteContent, FallbackLen), TRUE)

\* Step 1 of generateTitle in part_000.
ExtractSimple(noteContent, K) ==
    ExtractFromValid(ValidSentences(noteContent), noteContent, K)

Extract(variant, noteContent, K, summ) ==
    IF variant = "textrank" THEN ExtractTextrank(noteContent, summ)
    ELSE ExtractSimple(noteContent, K)

Extracted(e) ==
    [notices |-> e.notices, ctx |-> e.ctx, fallback |-> e.fallback,
     call |-> e.call, extracted |-> TRUE]

\* A generateTitle without its API key check.
NoKeyCheck(variant, apiKey, noteContent, K, summ) ==
    Extracted(Extract(variant, noteContent, K, summ))

\* generateTitle up to its await of model.generateContent: the API key
\* check, then the extraction.  extracted = FALSE: extraction was not run.
GenerateTitleBegin(variant, apiKey, noteContent, K, summ) ==
    IF Len(apiKey) = 0
      THEN [notices |-> <<"apiKeyNotSet">>, ctx |-> <<>>, fallback |-> FALSE,
            call |-> FALSE, extracted |-> FALSE]
    ELSE Extracted(Extract(variant, noteContent, K, summ))

\* ---------------------------------------------------------------- oracle

\* Titles the oracle may put in its answer.
RawTitles ==
    { <<>>, <<" ">>, <<"T">>, <<" ", "T", " ">>, <<"?">> }

\* What awaiting model.generateContent can bring: a rejection (network
\* error), a result without response, and a response whose text is malformed
\* JSON, the JSON null, or a JSON object without title, with a numeric title
\* or with a string title.
Resp(kind, top, titleType, num, str) ==
    [kind |-> kind, top |-> top, titleType |-> titleType, num |-> num, str |-> str]

OracleResponses ==
    { Resp(k, "none", "absent", 0, <<>>) : k \in {"reject", "noResponse"} }
    \cup { Resp("text", t, "absent", 0, <<>>) : t \in {"malformed", "null", "object"} }
    \cup { Resp("text", "object", "number", 5, <<>>) }
    \cup { Resp("text", "object", "string", 0, s) : s \in RawTitles }

\* A check of the answer that forgets the type of the title.
LooseTitleJson(r) == r.top = "object" /\ r.titleType # "absent"

\* jsonResponse && jsonResponse.title && typeof jsonResponse.title === 'string'
ValidTitleJson(r) ==
    /\ r.top = "object"
    /\ \/ r.titleType = "string" /\ Len(r.str) > 0
       \/ r.titleType = "number" /\ r.num # 0
    /\ r.titleType = "string"

\* generateTitle from the return of model.generateContent on: the notices and
\* the returned value (isNull, or the trimmed title).
GenerateTitleEnd(r) ==
    IF r.kind = "reject"
      THEN [notices |-> <<"generateError">>, isNull |-> TRUE, title |-> <<>>]
    ELSE IF r.kind = "noResponse"
      THEN [notices |-> <<"noResponse">>, isNull |-> TRUE, title |-> <<>>]
    ELSE IF r.top = "malformed"
      THEN [notices |-> <<"parseFailed">>, isNull |-> TRUE, title |-> <<>>]
    ELSE IF ValidTitleJson(r)
      THEN [notices |-> <<>>, isNull |-> FALSE, title |-> Trim(r.str)]
    ELSE [notices |-> <<"invalidTitle">>, isNull |-> TRUE, title |-> <<>>]

\* if (generatedTitle): neither null nor the empty string.
Truthy(g) == ~g.isNull /\ Len(g.title) > 0

\* ------------------------------------------------------- updateNoteTitle

\* A pattern that leaves the path separators in.
ForbiddenNoSeparators == {":", "*", "?", "\"", "<", ">", "|"}

\* Characters removed by replace(/[\\/:*?"<>|]/g, '').
Forbidden == {"\\", "/", ":", "*", "?", "\"", "<", ">", "|"}

RECURSIVE RemoveForbidden(_)
RemoveForbidden(s) ==
    IF Len(s) = 0 THEN <<>>
    ELSE (IF s[1] \in Forbidden THEN <<>> ELSE <<s[1]>>) \o RemoveForbidden(Tail(s))

\* replace(/[\n\r]/g, ' ')
NewlinesToSpaces(s) == [i \in 1..Len(s) |-> IF s[i] \in {"\n", "\r"} THEN " " ELSE s[i]]

\* A sanitizing that trims first and replaces afterwards.
SanitizeTrimFirst(newTitle) == NewlinesToSpaces(RemoveForbidden(Trim(newTitle)))

SanitizeTitle(newTitle) == Trim(NewlinesToSpaces(RemoveForbidden(newTitle)))

\* path of the vault's root folder, the parent of the notes at the top of the
\* vault.
RootPath == <<"/">>

\* file.path of a file record, as the host forms it: the path of the parent
\* folder, a slash and the name; the name alone at the top of the vault.
\* f.parent is file.parent.path, <<>> when file.parent is null.
FilePath(f) ==
    (IF f.parent \notin {<<>>, RootPath} THEN f.parent \o <<"/">> ELSE <<>>)
    \o f.basename \o <<".">> \o f.extension

\* The path the host resolves a given path to: leading slashes dropped.
RECURSIVE HostPath(_)
HostPath(path) ==
    IF Len(path) > 0 /\ path[1] = "/" THEN HostPath(Tail(path)) ELSE path

\* newPath of updateNoteTitle.
NewPath(f, sanitizedTitle) ==
    (IF Len(f.parent) > 0 THEN f.parent \o <<"/">> ELSE <<>>)
    \o sanitizedTitle \o <<".">> \o f.extension

\* updateNoteTitle up to its await of fileManager.renameFile.  rename = TRUE:
\* renameFile is called with newPath; otherwise it returns false.
UpdateSanitized(f, newTitle, sanitized) ==
    IF Len(newTitle) = 0 \/ Len(Trim(newTitle)) = 0
      THEN [notices |-> <<"titleEmpty">>, rename |-> FALSE, sanitized |-> <<>>]
    ELSE IF Len(sanitized) = 0
      THEN [notices |-> <<"sanitizedEmpty">>, rename |-> FALSE, sanitized |-> sanitized]
    ELSE IF FilePath(f) = NewPath(f, sanitized)
      THEN [notices |-> <<"alreadyTitled">>, rename |-> FALSE, sanitized |-> sanitized]
    ELSE [notices |-> <<>>, rename |-> TRUE, sanitized |-> sanitized]

UpdateNoteTitleBegin(f, newTitle) == UpdateSanitized(f, newTitle, SanitizeTitle(newTitle))

UpdOff ==
    [pc |-> "off", file |-> 0, title |-> <<>>, sanitized |-> <<>>, rename |-> FALSE,
     newPath |-> <<>>, notices |-> <<>>]

\* toLowerCase() on the letters file names use.
UpperCase == <<"A","B","C","D","E","F","G","H","I","J","K","L","M",
               "N","O","P","Q","R","S","T","U","V","W","X","Y","Z">>
LowerCase == <<"a","b","c","d","e","f","g","h","i","j","k","l","m",
               "n","o","p","q","r","s","t","u","v","w","x","y","z">>
ToLowerCase(s) ==
    [i \in 1..Len(s) |->
        IF \E k \in 1..26 : UpperCase[k] = s[i]
          THEN LowerCase[CHOOSE k \in 1..26 : UpperCase[k] = s[i]]
          ELSE s[i]]

\* basename.toLowerCase().startsWith("untitled")
Untitled == <<"u","n","t","i","t","l","e","d">>
StartsWithUntitled(basename) ==
    /\ Len(basename) >= Len(Untitled)
    /\ SubSeq(ToLowerCase(basename), 1, Len(Untitled)) = Untitled

\* ------------------------------------------------------------------ state

VARIABLES
    variant,         \* which version of the plugin runs
    settings,        \* this.settings
    vault,           \* the host's files: file id -> TFile fields
    lastActiveFile,  \* this.lastActiveFile (0: null)
    layoutReady,     \* the onLayoutReady callback has run
    tasks,           \* the per-document pipeline runs: in flight, or just ended
    batches,         \* the pMap runs: in flight, or just ended
    step,            \* what the last step was given and what it showed
    gen,             \* one generateTitle call on a drawn document
    data,            \* what the host has persisted for the plugin (data.json)
    runs,            \* the calls of generateTitle made one after the other
    upd              \* one updateNoteTitle call on a drawn title

vars == <<variant, settings, vault, lastActiveFile, layoutReady, tasks, batches, step, gen,
          data, runs, upd>>

Files == 1..NumFiles
\* One slot per operation, and a spare one: a pMap that took a second
\* document early would find room for it.
Slots == 1..(MaxOps + 1)
BatchIds == 1..MaxOps

ApiKeys == { <<>>, <<"k">> }

\* ------------------------------------------------------------- documents

ImageLine == <<"!", "[", "[", "i", "]", "]">>

Fragments ==
    { <<"a">>, <<" ">>, <<"\n">>, <<".">>, ImageLine, <<"a", " ", "b", " ", "c">> }

RECURSIVE FragTexts(_)
FragTexts(n) ==
    IF n = 0 THEN { <<>> }
    ELSE LET shorter == FragTexts(n - 1)
         IN  shorter \cup { t \o f : t \in shorter, f \in Fragments }

Pad(c, n) == [i \in 1..n |-> c]

\* Documents longer than the fallback's 500 characters: whitespace up to or
\* past the cut, then text; and text past the cut.
LongDocs ==
    { Pad(" ", n) \o t : n \in {FallbackLen - 1, FallbackLen},
                         t \in { <<"a">>, <<"a", ".", "\n">> \o ImageLine } }
    \cup { Pad("a", FallbackLen) \o <<"b">>,
           ImageLine \o <<"\n">> \o Pad("a", FallbackLen) \o <<"b">> }

SentenceTexts == { <<"a", " ", "b", " ", "c">>, <<"d", " ", "e", " ", "f">>, <<"x">> }

\* Documents of n sentences, of three words or of one, each closed by a
\* period and a blank.
RECURSIVE SentenceDocs(_)
SentenceDocs(n) ==
    IF n = 0 THEN { <<>> }
    ELSE { t \o st \o <<".", " ">> : t \in SentenceDocs(n - 1), st \in SentenceTexts }

\* Abbreviations named in the simple variant's sentenceEndRegex.
Abbreviations == { <<"M", "r">>, <<"D", "r">>, <<"e", "t", "c">> }

\* Documents of one sentence with an abbreviation in it, at its start or
\* inside.
AbbrevDocs ==
    { ab \o <<".", " ", "a", " ", "b", " ", "c", ".">> : ab \in Abbreviations }
    \cup { <<"a", " ", "b", " ">> \o ab \o <<".", " ", "c", " ", "d", ".">> :
              ab \in Abbreviations }

\* The documents the extraction specification draws.
Docs ==
    FragTexts(MaxFrags) \cup LongDocs \cup UNION { SentenceDocs(n) : n \in 1..MaxSentences }
    \cup AbbrevDocs

\* The documents a read by the host returns in the pipeline specification.
HostDocs ==
    { <<>>, <<" ", "\n">>, ImageLine, <<"a">>, <<"a", " ", "b", " ", "c", ".">>,
      Pad(" ", FallbackLen) \o <<"a">> }

\* ---------------------------------------------------------------- tasks

NoResp == Resp("pending", "none", "absent", 0, <<>>)

NonBlank(s) == \E i \in 1..Len(s) : s[i] \notin Whitespace

\* A pipeline run.  kind: the entry point ("command", "fileMenu", "filesMenu",
\* "leaf", "startup"), or "generateTitle" for a call of generateTitle alone.
\* pc: where the run is suspended ("read", "oracle",
\* "rename"), "done" when its handler has returned, "rejected" when its
\* promise has rejected, "idle" for a free slot.  calls: the calls the run has
\* made ("read", "extract", "oracle", "rename"), in order.
NewTask(kind, b, f, pc, calls) ==
    [kind |-> kind, batch |-> b, file |-> f, pc |-> pc, calls |-> calls,
     newName |-> <<>>]

Idle == NewTask("none", 0, 0, "idle", <<>>)

\* A leaf of the workspace as the handler sees it: no leaf, a markdown view
\* or another view, with a file (file # 0) or without.
NullLeaf == [view |-> "none", file |-> 0]

\* What a step was given (the note's text, the oracle's answer, the host's
\* verdict) and the notices it showed, in order.
NewStep(act, slot, notices) ==
    [act |-> act, slot |-> slot, notices |-> notices,
     threw |-> FALSE, blank |-> FALSE, keyEmpty |-> FALSE, fallback |-> FALSE,
     ctxOk |-> FALSE, resp |-> NoResp, isNull |-> FALSE, leaf |-> NullLeaf]

NoStep == NewStep("none", 0, <<>>)

\* A mapper's or handler's catch block: the error is reported and the
\* function returns normally.
CatchError(t) == [task |-> [t EXCEPT !.pc = "done"], notices |-> <<"processingError">>]

\* The synchronous run from the note's text to the await of
\* model.generateContent, or to the handler's return: the task after it
\* and the notices shown.
AfterBegin(t, g) ==
    [task |-> IF g.call
                THEN [t EXCEPT !.pc = "oracle",
                        !.calls = @ \o (IF g.extracted THEN <<"extract">> ELSE <<>>)
                                    \o <<"oracle">>]
                ELSE [t EXCEPT !.pc = "done",
                        !.calls = @ \o (IF g.extracted THEN <<"extract">> ELSE <<>>)],
     notices |-> (IF t.kind \in {"command", "fileMenu"} THEN <<"generating">> ELSE <<>>)
                 \o g.notices,
     fallback |-> g.fallback,
     ctxOk |-> g.extracted /\ NonBlank(g.ctx)]

\* An entry point without its own check of the note's text.
AfterContentUnchecked(t, doc, summ) ==
    AfterBegin(t, GenerateTitleBegin(variant, settings.apiKey, doc,
                                     settings.numberOfSentences, summ))

AfterContent(t, doc, summ) ==
    IF Len(Trim(doc)) = 0
      THEN [task |-> [t EXCEPT !.pc = "done"], notices |-> <<"emptySkipped">>,
            fallback |-> FALSE, ctxOk |-> FALSE]
    ELSE AfterBegin(t, GenerateTitleBegin(variant, settings.apiKey, doc,
                                          settings.numberOfSentences, summ))

\* The synchronous run from the return of model.generateContent to the await
\* of fileManager.renameFile, or to the handler's return.
AfterUpdate(t, e, u) ==
    IF u.rename
      THEN [task |-> [t EXCEPT !.pc = "rename", !.newName = u.sanitized,
                               !.calls = @ \o <<"rename">>],
            notices |-> e.notices \o u.notices, isNull |-> e.isNull]
      ELSE [task |-> [t EXCEPT !.pc = "done"], notices |-> e.notices \o u.notices,
            isNull |-> e.isNull]

\* An entry point that calls the oracle once more when generateTitle gave null.
AfterTitleRetry(t, e) ==
    IF e.isNull /\ Len(t.calls) < 5
      THEN [task |-> [t EXCEPT !.pc = "oracle", !.calls = @ \o <<"oracle">>],
            notices |-> e.notices, isNull |-> e.isNull]
    ELSE IF ~Truthy(e) \/ t.kind = "generateTitle"
      THEN [task |-> [t EXCEPT !.pc = "done"], notices |-> e.notices, isNull |-> e.isNull]
    ELSE AfterUpdate(t, e, UpdateNoteTitleBegin(vault[t.file], e.title))

\* if (generatedTitle) of the entry points; a call of generateTitle alone ends
\* with its return.
AfterTitle(t, e) ==
    IF ~Truthy(e) \/ t.kind = "generateTitle"
      THEN [task |-> [t EXCEPT !.pc = "done"], notices |-> e.notices, isNull |-> e.isNull]
    ELSE AfterUpdate(t, e, UpdateNoteTitleBegin(vault[t.file], e.title))

AfterOracle(t, r) == AfterTitle(t, GenerateTitleEnd(r))

\* A run that has ended is kept for one step, then its slot is free again.
Live == [s \in Slots |-> IF tasks[s].pc = "done" THEN Idle ELSE tasks[s]]

NoBatch == [kind |-> "none", items |-> <<>>, next |-> 0, count |-> 0,
            pc |-> "idle", log |-> <<>>]

LiveBatches ==
    [b \in BatchIds |-> IF batches[b].pc \in {"done", "rejected"} THEN NoBatch ELSE batches[b]]

Suspended == {"read", "oracle", "rename"}

\* The slots of the mappers of batch b that are in progress.
InFlight(b) == {s \in Slots : Live[s].batch = b /\ Live[s].pc \in Suspended}

Rejected(b) == {s \in Slots : Live[s].batch = b /\ Live[s].pc = "rejected"}

FreeSlots == {s \in Slots : Live[s].pc = "idle"}

FirstFree == CHOOSE s \in FreeSlots : \A r \in FreeSlots : s <= r

FreeBatches == {b \in BatchIds : LiveBatches[b].pc = "idle"}

\* Operations in flight: the single-note handlers and the batches.
Ops ==
    Cardinality({s \in Slots : Live[s].batch = 0 /\ Live[s].pc \in Suspended})
    + Cardinality(BatchIds \ FreeBatches)

\* Sequences of files of length lo..hi.
FileSeqs(lo, hi) == UNION { [1..n -> Files] : n \in lo..hi }

Distinct(q) == \A i, j \in 1..Len(q) : i # j => q[i] # q[j]

\* ------------------------------------------------------------------- init

DigitChar == <<"1", "2", "3", "4", "5">>

UntitledName(f) == <<"U", "n", "t", "i", "t", "l", "e", "d", " ", DigitChar[f]>>

\* Every file starts as a note "Untitled n": the first in a folder "d", the
\* others at the top of the vault, with the root folder for parent.
InitialVault ==
    [f \in Files |-> [exists |-> TRUE, parent |-> IF f = 1 THEN <<"d">> ELSE RootPath,
                      basename |-> UntitledName(f), extension |-> <<"m", "d">>]]

\* DEFAULT_PLUGIN_SETTINGS of the variant; the simple variant has no
\* auto-update, its field stays FALSE.
DefaultSettings(v) ==
    [apiKey |-> <<>>,
     numberOfSentences |-> IF v = "textrank" THEN 8 ELSE 5,
     autoUpdateUntitledNotes |-> FALSE]

SettingsFields == {"apiKey", "numberOfSentences", "autoUpdateUntitledNotes"}

\* The object loadData gives: the fields it has (none: nothing was saved) and
\* their values.
NoData(v) == [has |-> {}, val |-> DefaultSettings(v)]

\* saveSettings: saveData(this.settings).
Saved(st) == [has |-> SettingsFields, val |-> st]

\* Object.assign({}, DEFAULT_PLUGIN_SETTINGS, await this.loadData()).
MergeSettings(v, d) ==
    [f \in SettingsFields |-> IF f \in d.has THEN d.val[f] ELSE DefaultSettings(v)[f]]

\* loadSettings: the defaults merged with what the host has persisted.
InitialSettings ==
    [apiKey : ApiKeys, numberOfSentences : {MaxK}, autoUpdateUntitledNotes : BOOLEAN]

NoSummary == [throws |-> FALSE, sentences |-> <<>>]

GenOff ==
    [pc |-> "off", doc |-> <<>>, summ |-> NoSummary,
     notices |-> <<>>, ctx |-> <<>>, fallback |-> FALSE, extracted |-> FALSE,
     resp |-> NoResp, isNull |-> TRUE, title |-> <<>>]

\* The plugin after onload.
Init ==
    /\ variant \in Variants
    /\ settings \in InitialSettings
    /\ vault = InitialVault
    /\ lastActiveFile = 0
    /\ layoutReady = FALSE
    /\ tasks = [s \in Slots |-> Idle]
    /\ batches = [b \in BatchIds |-> NoBatch]
    /\ step = NoStep
    /\ gen = GenOff
    /\ data = Saved(settings)
    /\ runs = <<>>
    /\ upd = UpdOff

\* --------------------------------------------------------------- actions

\* A pMap that runs two mappers at a time.
TwoAtATime == 1 + 1

\* { concurrency: 1 } of both pMap calls.
Concurrency == 1

\* A mapper without its try/catch: the error rejects the mapper's promise.
MapperRethrow(t) == [task |-> [t EXCEPT !.pc = "rejected"], notices |-> <<>>]

\* The catch block of a batch mapper.
MapperCatch(t) == CatchError(t)

\* app.vault.getAbstractFileByPath(path): the files at that path.
FilesAtPath(path) == {g \in Files : vault[g].exists /\ FilePath(vault[g]) = path}

\* The summarizer's possible answers on the filtered text of doc.
Summaries(doc) == SummarizerOutcomes(ProcessedNoteContent(doc), settings.numberOfSentences)

\* What a step that was handed the note's text records.
ContentStep(act, slot, doc, a) ==
    [NewStep(act, slot, a.notices) EXCEPT
        !.blank = ~NonBlank(doc), !.keyEmpty = Len(settings.apiKey) = 0,
        !.fallback = a.fallback, !.ctxOk = a.ctxOk]

PutContent(act, slot, doc, a) ==
    /\ tasks' = [Live EXCEPT ![slot] = a.task]
    /\ step' = ContentStep(act, slot, doc, a)

\* The editor command on the active view (f = 0: the view has no file); the
\* editor holds doc.
CommandCallback(f) ==
    /\ IF f = 0
         THEN /\ tasks' = [Live EXCEPT ![FirstFree] = NewTask("command", 0, 0, "done", <<>>)]
              /\ step' = NewStep("command", FirstFree, <<"noActiveFile">>)
         ELSE \E doc \in HostDocs : \E summ \in Summaries(doc) :
                PutContent("command", FirstFree, doc,
                           AfterContent(NewTask("command", 0, f, "start", <<>>), doc, summ))
    /\ batches' = LiveBatches
    /\ UNCHANGED <<upd, runs, variant, settings, vault, lastActiveFile, layoutReady, gen, data>>

\* The command, when fewer than MaxOps operations are in flight.
StartCommand(f) ==
    /\ Ops < MaxOps
    /\ CommandCallback(f)

\* A call of generateTitle(doc) alone, up to its await of
\* model.generateContent or its return.
CallGenerateTitle ==
    /\ Ops < MaxOps
    /\ \E doc \in HostDocs : \E summ \in Summaries(doc) :
          PutContent("generateTitle", FirstFree, doc,
                     AfterBegin(NewTask("generateTitle", 0, 0, "start", <<>>),
                                GenerateTitleBegin(variant, settings.apiKey, doc,
                                                   settings.numberOfSentences, summ)))
    /\ batches' = LiveBatches
    /\ UNCHANGED <<upd, runs, variant, settings, vault, lastActiveFile, layoutReady, gen, data>>

\* The file-menu item of one markdown file, up to its await of cachedRead.
StartFileMenu(f) ==
    /\ Ops < MaxOps
    /\ vault[f].exists
    /\ tasks' = [Live EXCEPT ![FirstFree] = NewTask("fileMenu", 0, f, "read", <<"read">>)]
    /\ step' = NewStep("fileMenu", FirstFree, <<>>)
    /\ batches' = LiveBatches
    /\ UNCHANGED <<upd, runs, variant, settings, vault, lastActiveFile, layoutReady, gen, data>>

\* A handler that does not look whether the file is still in the vault.
LeafAutoTitlesUnchecked(prev) ==
    /\ settings.autoUpdateUntitledNotes
    /\ prev # 0
    /\ StartsWithUntitled(vault[prev].basename)

\* The conditions under which handleActiveLeafChange goes on to read
\* previousFile.
LeafAutoTitles(prev) ==
    /\ settings.autoUpdateUntitledNotes
    /\ prev # 0
    /\ FilesAtPath(FilePath(vault[prev])) # {}
    /\ StartsWithUntitled(vault[prev].basename)

Leaves ==
    {NullLeaf} \cup { [view |-> v, file |-> f] : v \in {"markdown", "other"}, f \in Files \cup {0} }

\* The leaf of a markdown view showing note nf; no leaf when nf = 0.
MarkdownLeaf(nf) == IF nf = 0 THEN NullLeaf ELSE [view |-> "markdown", file |-> nf]

\* A handler that remembers the file of any view.
LeafFileAnyView(newLeaf) == newLeaf.file

\* What handleActiveLeafChange stores in lastActiveFile: newLeaf.view.file
\* if (newLeaf && newLeaf.view instanceof MarkdownView && newLeaf.view.file),
\* null (0) otherwise.
LeafFile(newLeaf) ==
    IF newLeaf.view = "markdown" /\ newLeaf.file # 0 THEN newLeaf.file ELSE 0

\* handleActiveLeafChange(newLeaf), up to its await of cachedRead or its
\* return.
HandleActiveLeafChange(newLeaf) ==
    /\ variant = "textrank"
    /\ newLeaf.file # 0 => vault[newLeaf.file].exists
    /\ lastActiveFile' = LeafFile(newLeaf)
    /\ IF LeafAutoTitles(lastActiveFile)
         THEN /\ tasks' = [Live EXCEPT ![FirstFree] =
                    NewTask("leaf", 0, lastActiveFile, "read", <<"read">>)]
              /\ step' = [NewStep("leaf", FirstFree, <<"checking">>) EXCEPT !.leaf = newLeaf]
         ELSE /\ tasks' = Live
              /\ step' = [NewStep("leaf", 0, <<>>) EXCEPT !.leaf = newLeaf]
    /\ batches' = LiveBatches
    /\ UNCHANGED <<upd, runs, variant, settings, vault, layoutReady, gen, data>>

\* An active-leaf-change event, when fewer than MaxOps operations are in flight.
StartLeafChange(nf) ==
    /\ Ops < MaxOps
    /\ HandleActiveLeafChange(MarkdownLeaf(nf))

NewBatch(kind, items, log) ==
    [kind |-> kind, items |-> items, next |-> 0, count |-> 0,
     pc |-> "running", log |-> log]

\* The files-menu item of a selection of markdown files, up to its await of pMap.
StartFilesMenu(items) ==
    /\ Ops < MaxOps
    /\ Len(items) > 0
    /\ Distinct(items)
    /\ \A i \in 1..Len(items) : vault[items[i]].exists
    /\ batches' = [LiveBatches EXCEPT ![CHOOSE b \in FreeBatches : TRUE] =
                      NewBatch("filesMenu", items, <<"batchStart">>)]
    /\ tasks' = Live
    /\ step' = NewStep("filesMenu", 0, <<"batchStart">>)
    /\ UNCHANGED <<upd, runs, variant, settings, vault, lastActiveFile, layoutReady, gen, data>>

\* The open markdown leaves whose file's basename starts with "untitled".
UntitledOpenFiles(leaves) ==
    LET idx == {i \in 1..Len(leaves) : StartsWithUntitled(vault[leaves[i]].basename)}
    IN  Pick(leaves, idx, 1)

\* A callback that does not look at the setting.
StartupAutoTitlesAlways(untitled) == Len(untitled) > 0

\* if (this.settings.autoUpdateUntitledNotes) and if (untitledOpenFiles.length
\* > 0) of the onLayoutReady callback.
StartupAutoTitles(untitled) ==
    settings.autoUpdateUntitledNotes /\ Len(untitled) > 0

\* The onLayoutReady callback, up to its await of pMap; leaves are the files
\* of the open markdown leaves.
OnLayoutReady(leaves) ==
    /\ variant = "textrank"
    /\ ~layoutReady
    /\ \A i \in 1..Len(leaves) : vault[leaves[i]].exists
    /\ layoutReady' = TRUE
    /\ IF StartupAutoTitles(UntitledOpenFiles(leaves))
         THEN batches' = [LiveBatches EXCEPT ![CHOOSE b \in FreeBatches : TRUE] =
                             NewBatch("startup", UntitledOpenFiles(leaves), <<>>)]
         ELSE batches' = LiveBatches
    /\ tasks' = Live
    /\ step' = NewStep("layoutReady", 0, <<>>)
    /\ UNCHANGED <<upd, runs, variant, settings, vault, lastActiveFile, gen, data>>

\* The layout becomes ready, when fewer than MaxOps operations are in flight.
StartLayoutReady(leaves) ==
    /\ Ops < MaxOps
    /\ OnLayoutReady(leaves)

\* A mapper that goes on without a second look.
MapperNoRecheck(b, f, at) ==
    [task |-> NewTask("startup", b, f, "read", <<"read">>), notices |-> <<"autoUpdating">>]

\* The startup mapper's second look at its file: gone, renamed, or still
\* untitled.
MapperRecheck(b, f, at) ==
    IF at = {}
      THEN [task |-> NewTask("startup", b, f, "done", <<>>), notices |-> <<>>]
    ELSE IF ~StartsWithUntitled(vault[CHOOSE g \in at : TRUE].basename)
      THEN [task |-> NewTask("startup", b, CHOOSE g \in at : TRUE, "done", <<>>),
            notices |-> <<>>]
    ELSE [task |-> NewTask("startup", b, CHOOSE g \in at : TRUE, "read", <<"read">>),
          notices |-> <<"autoUpdating">>]

\* The mapper of batch b on file f, up to its first await or its return.
MapperStart(b, f) ==
    IF LiveBatches[b].kind = "filesMenu"
      THEN [task |-> NewTask("filesMenu", b, f, "read", <<"read">>), notices |-> <<>>]
    ELSE MapperRecheck(b, f, FilesAtPath(FilePath(vault[f])))

PutTask(act, slot, m) ==
    /\ tasks' = [Live EXCEPT ![slot] = m.task]
    /\ step' = NewStep(act, slot, m.notices)

\* pMap takes the next document when fewer than `concurrency` mappers are in
\* flight and no mapper has rejected.
PMapNext(b) ==
    /\ LiveBatches[b].pc = "running"
    /\ LiveBatches[b].next < Len(LiveBatches[b].items)
    /\ Cardinality(InFlight(b)) < Concurrency
    /\ Rejected(b) = {}
    /\ FreeSlots # {}
    /\ PutTask("mapper", FirstFree,
               MapperStart(b, LiveBatches[b].items[LiveBatches[b].next + 1]))
    /\ batches' = [LiveBatches EXCEPT ![b].next = @ + 1]
    /\ UNCHANGED <<upd, runs, variant, settings, vault, lastActiveFile, layoutReady, gen, data>>

\* A handler that ends after its await of pMap without a word.
NoClosingNotice(kind, count) == <<>>

\* What the handler shows after its await of pMap: the files-menu batch its
\* "Finished" notice, the startup batch its summary if (updatedTitlesCount > 0).
ClosingNotice(kind, count) ==
    IF kind = "filesMenu" THEN <<"finished">>
    ELSE IF count > 0 THEN <<"startupSummary">>
    ELSE <<>>

\* The await of pMap ends: every mapper has returned (the handler goes on to
\* its closing notice), or one has rejected (the handler rejects).
PMapSettle(b) ==
    /\ LiveBatches[b].pc = "running"
    /\ InFlight(b) = {}
    /\ IF Rejected(b) # {}
         THEN /\ batches' = [LiveBatches EXCEPT ![b].pc = "rejected"]
              /\ tasks' = [s \in Slots |-> IF s \in Rejected(b) THEN Idle ELSE Live[s]]
              /\ step' = NewStep("settle", 0, <<>>)
         ELSE /\ LiveBatches[b].next = Len(LiveBatches[b].items)
              /\ batches' = [LiveBatches EXCEPT ![b].pc = "done",
                                   ![b].log = @ \o ClosingNotice(LiveBatches[b].kind,
                                                                LiveBatches[b].count)]
              /\ step' = NewStep("settle", 0, ClosingNotice(LiveBatches[b].kind,
                                                            LiveBatches[b].count))
              /\ tasks' = Live
    /\ UNCHANGED <<upd, runs, variant, settings, vault, lastActiveFile, layoutReady, gen, data>>

PutCaught(s, c) ==
    /\ tasks' = [Live EXCEPT ![s] = c.task]
    /\ step' = [NewStep("read", s, c.notices) EXCEPT !.threw = TRUE]

\* cachedRead throws.
ReadThrows(s) ==
    /\ Live[s].pc = "read"
    /\ PutCaught(s, IF Live[s].batch # 0 THEN MapperCatch(Live[s]) ELSE CatchError(Live[s]))
    /\ batches' = LiveBatches
    /\ UNCHANGED <<upd, runs, variant, settings, vault, lastActiveFile, layoutReady, gen, data>>

\* cachedRead returns the note's text.
ReadReturn(s) ==
    /\ Live[s].pc = "read"
    /\ \E doc \in HostDocs : \E summ \in Summaries(doc) :
          PutContent("read", s, doc, AfterContent(Live[s], doc, summ))
    /\ batches' = LiveBatches
    /\ UNCHANGED <<upd, runs, variant, settings, vault, lastActiveFile, layoutReady, gen, data>>

PutAnswer(s, r, a) ==
    /\ tasks' = [Live EXCEPT ![s] = a.task]
    /\ step' = [NewStep("oracle", s, a.notices) EXCEPT !.resp = r, !.isNull = a.isNull]

\* model.generateContent returns or rejects.
OracleReturn(s) ==
    /\ Live[s].pc = "oracle"
    /\ \E r \in OracleResponses : PutAnswer(s, r, AfterOracle(Live[s], r))
    /\ batches' = LiveBatches
    /\ UNCHANGED <<upd, runs, variant, settings, vault, lastActiveFile, layoutReady, gen, data>>

\* An updateNoteTitle whose catch block reports and then returns true.
RenameOutcomeTrue(f, newName, ok) ==
    [basename |-> IF ok THEN newName ELSE f.basename,
     notices |-> IF ok THEN <<"titleUpdated">> ELSE <<"renameError">>,
     wasUpdated |-> TRUE]

\* updateNoteTitle from the end of its await of fileManager.renameFile: the
\* file's name after it, the notice, and the value returned.
RenameOutcome(f, newName, ok) ==
    [basename |-> IF ok THEN newName ELSE f.basename,
     notices |-> IF ok THEN <<"titleUpdated">> ELSE <<"renameError">>,
     wasUpdated |-> ok]

\* A startup mapper that counts every note it went through.
CountAlways(b, kind, wasUpdated) ==
    IF kind = "startup" THEN [LiveBatches EXCEPT ![b].count = @ + 1] ELSE LiveBatches

\* if (wasUpdated) updatedTitlesCount++ of the startup mapper.
CountUpdated(b, kind, wasUpdated) ==
    IF kind = "startup" /\ wasUpdated
      THEN [LiveBatches EXCEPT ![b].count = @ + 1]
      ELSE LiveBatches

PutRenamed(s, t, ok, o) ==
    /\ tasks' = [Live EXCEPT ![s].pc = "done"]
    /\ vault' = [vault EXCEPT ![t.file].basename = o.basename]
    /\ step' = [NewStep("rename", s, o.notices) EXCEPT !.threw = ~ok]
    /\ batches' = CountUpdated(t.batch, t.kind, o.wasUpdated)

\* fileManager.renameFile resolves or rejects; the host rejects a path that
\* another file has.
RenameReturn(s, ok) ==
    /\ Live[s].pc = "rename"
    /\ ok => /\ FilesAtPath(HostPath(NewPath(vault[Live[s].file], Live[s].newName))) = {}
             /\ vault[Live[s].file].exists
    /\ PutRenamed(s, Live[s], ok,
                  RenameOutcome(vault[Live[s].file], Live[s].newName, ok))
    /\ UNCHANGED <<upd, runs, variant, settings, lastActiveFile, layoutReady, gen, data>>

\* The user deletes a note; the TFile objects the plugin holds stay as they
\* were.
DeleteFile(f) ==
    /\ vault[f].exists
    /\ vault' = [vault EXCEPT ![f].exists = FALSE]
    /\ tasks' = Live
    /\ batches' = LiveBatches
    /\ step' = NewStep("delete", 0, <<>>)
    /\ UNCHANGED <<upd, runs, variant, settings, lastActiveFile, layoutReady, gen, data>>

\* The settings tab: the API key field.
SetApiKey(k) ==
    /\ settings.apiKey # k
    /\ settings' = [settings EXCEPT !.apiKey = k]
    /\ data' = Saved(settings')
    /\ tasks' = Live
    /\ batches' = LiveBatches
    /\ step' = NoStep
    /\ UNCHANGED <<upd, runs, variant, vault, lastActiveFile, layoutReady, gen>>

\* The settings tab: the auto-update toggle.
SetAutoUpdate(v) ==
    /\ variant = "textrank"
    /\ settings.autoUpdateUntitledNotes # v
    /\ settings' = [settings EXCEPT !.autoUpdateUntitledNotes = v]
    /\ data' = Saved(settings')
    /\ tasks' = Live
    /\ batches' = LiveBatches
    /\ step' = NoStep
    /\ UNCHANGED <<upd, runs, variant, vault, lastActiveFile, layoutReady, gen>>

Next ==
    \/ \E f \in Files \cup {0} : StartCommand(f)
    \/ CallGenerateTitle
    \/ \E f \in Files : StartFileMenu(f)
    \/ \E nf \in Files \cup {0} : StartLeafChange(nf)
    \/ \E items \in FileSeqs(1, MaxBatchLen) : StartFilesMenu(items)
    \/ \E leaves \in FileSeqs(0, MaxBatchLen) : StartLayoutReady(leaves)
    \/ \E b \in BatchIds : PMapNext(b)
    \/ \E b \in BatchIds : PMapSettle(b)
    \/ \E s \in Slots : ReadThrows(s)
    \/ \E s \in Slots : ReadReturn(s)
    \/ \E s \in Slots : OracleReturn(s)
    \/ \E s \in Slots, ok \in BOOLEAN : RenameReturn(s, ok)
    \/ \E k \in ApiKeys : SetApiKey(k)
    \/ \E v \in BOOLEAN : SetAutoUpdate(v)

Spec == Init /\ [][Next]_vars

\* ------------------------------------------------- fair pipeline runs

\* What batch b can do next: pMap takes a document or settles, or the call
\* its mapper awaits ends.  A batch awaits one thing at a time.
BatchProgress(b) ==
    \/ PMapNext(b)
    \/ PMapSettle(b)
    \/ \E s \in Slots :
          /\ Live[s].batch = b
          /\ \/ ReadThrows(s)
             \/ ReadReturn(s)
             \/ OracleReturn(s)
             \/ \E ok \in BOOLEAN : RenameReturn(s, ok)

\* The pipeline runs with every call a batch awaits ending, and pMap going on
\* as soon as it can.
FairSpec ==
    /\ Init /\ [][Next]_vars
    /\ \A b \in BatchIds : WF_vars(BatchProgress(b))

\* ------------------------------------------- generateTitle on its own

\* One call of generateTitle on a drawn document, under drawn settings.
GenSettings ==
    [apiKey : ApiKeys, numberOfSentences : 1..MaxK, autoUpdateUntitledNotes : {FALSE}]

GenInit ==
    /\ variant \in Variants
    /\ settings \in GenSettings
    /\ vault = InitialVault
    /\ lastActiveFile = 0
    /\ layoutReady = FALSE
    /\ tasks = [s \in Slots |-> Idle]
    /\ batches = [b \in BatchIds |-> NoBatch]
    /\ step = NoStep
    /\ gen \in {[GenOff EXCEPT !.pc = "start", !.doc = d] : d \in Docs}
    /\ data = Saved(settings)
    /\ runs = <<>>
    /\ upd = UpdOff

PutBegin(summ, g) ==
    gen' = [gen EXCEPT !.pc = IF g.call THEN "oracle" ELSE "done",
                       !.summ = summ, !.notices = g.notices, !.ctx = g.ctx,
                       !.fallback = g.fallback, !.extracted = g.extracted]

\* generateTitle(gen.doc) up to its await of model.generateContent, or to its
\* return of null.
GenBegin(summ) ==
    /\ gen.pc = "start"
    /\ PutBegin(summ, GenerateTitleBegin(variant, settings.apiKey, gen.doc,
                                         settings.numberOfSentences, summ))
    /\ UNCHANGED <<upd, runs, variant, settings, vault, lastActiveFile, layoutReady, tasks,
                   batches, step, data>>

PutEnd(r, e) ==
    gen' = [gen EXCEPT !.pc = "done", !.resp = r, !.notices = @ \o e.notices,
                       !.isNull = e.isNull, !.title = e.title]

\* generateTitle from the return of model.generateContent to its own return.
GenEnd(r) ==
    /\ gen.pc = "oracle"
    /\ PutEnd(r, GenerateTitleEnd(r))
    /\ UNCHANGED <<upd, runs, variant, settings, vault, lastActiveFile, layoutReady, tasks,
                   batches, step, data>>

GenNext ==
    \/ \E summ \in Summaries(gen.doc) : GenBegin(summ)
    \/ \E r \in OracleResponses : GenEnd(r)

SpecGen == GenInit /\ [][GenNext]_vars

\* ------------------------------------- auto-titling in a changing vault

\* The leaf-change handler and the layout-ready callback, with the user
\* deleting notes and switching the auto-update setting as they run.
AutoNext ==
    \/ \E nf \in Files \cup {0} : StartLeafChange(nf)
    \/ \E leaves \in FileSeqs(0, MaxBatchLen) : StartLayoutReady(leaves)
    \/ \E b \in BatchIds : PMapNext(b)
    \/ \E b \in BatchIds : PMapSettle(b)
    \/ \E s \in Slots : ReadThrows(s)
    \/ \E s \in Slots : ReadReturn(s)
    \/ \E s \in Slots : OracleReturn(s)
    \/ \E s \in Slots, ok \in BOOLEAN : RenameReturn(s, ok)
    \/ \E f \in Files : DeleteFile(f)
    \/ \E v \in BOOLEAN : SetAutoUpdate(v)

SpecAuto == Init /\ [][AutoNext]_vars

\* --------------------------------------------------- the settings alone

MaxInput == 2

InputChars == {"0", "1", "2", "-", "x", " "}

\* What the user can have typed into the field.
Inputs == UNION {[1..n -> InputChars] : n \in 0..MaxInput}

Digits == {"0", "1", "2", "3", "4", "5", "6", "7", "8", "9"}

DigitValue(c) == CHOOSE n \in 0..9 : <<"0", "1", "2", "3", "4", "5", "6", "7", "8", "9">>[n + 1] = c

\* The digits at the start of str, read in base 10 after acc.
RECURSIVE ParseDigits(_, _)
ParseDigits(str, acc) ==
    IF Len(str) > 0 /\ str[1] \in Digits
      THEN ParseDigits(Tail(str), 10 * acc + DigitValue(str[1]))
      ELSE acc

\* parseInt(str, 10) on a string without leading whitespace: a sign, then
\* digits up to the first other character; NaN without a digit.
ParseSigned(str) ==
    IF Len(str) > 0 /\ str[1] \in {"-", "+"}
      THEN IF Len(str) > 1 /\ str[2] \in Digits
             THEN [isNaN |-> FALSE,
                   num |-> IF str[1] = "-" THEN 0 - ParseDigits(Tail(str), 0)
                                           ELSE ParseDigits(Tail(str), 0)]
             ELSE [isNaN |-> TRUE, num |-> 0]
    ELSE IF Len(str) > 0 /\ str[1] \in Digits
      THEN [isNaN |-> FALSE, num |-> ParseDigits(str, 0)]
    ELSE [isNaN |-> TRUE, num |-> 0]

\* parseInt(value, 10): leading whitespace is skipped.
RECURSIVE ParseInt(_)
ParseInt(value) ==
    IF Len(value) > 0 /\ value[1] \in Whitespace
      THEN ParseInt(Tail(value))
      ELSE ParseSigned(value)

\* A field that takes every number it can read.
AcceptsAnyNumber(p) == ~p.isNaN

\* if (!isNaN(num) && num > 0) of the field's onChange.
AcceptsNumber(p) == ~p.isNaN /\ p.num > 0

\* What the host can hold for the plugin when it loads: nothing, or what an
\* earlier session saved, whole or without the fields that session did not
\* have yet.
PersistedData ==
    {NoData(variant)} \cup
    {[has |-> h, val |-> MergeSettings(variant, [has |-> h, val |-> st])] :
        h \in (SUBSET SettingsFields) \ {{}},
        st \in [apiKey : ApiKeys, numberOfSentences : 1..MaxK,
                autoUpdateUntitledNotes : BOOLEAN]}

\* The plugin has loaded: loadSettings has run on what the host holds.
SettingsInit ==
    /\ variant \in Variants
    /\ data \in PersistedData
    /\ runs = <<>>
    /\ upd = UpdOff
    /\ settings = MergeSettings(variant, data)
    /\ vault = InitialVault
    /\ lastActiveFile = 0
    /\ layoutReady = FALSE
    /\ tasks = [s \in Slots |-> Idle]
    /\ batches = [b \in BatchIds |-> NoBatch]
    /\ step = NoStep
    /\ gen = GenOff

\* The plugin is loaded again: loadSettings.
LoadSettings ==
    /\ settings' = MergeSettings(variant, data)
    /\ step' = NewStep("loadSettings", 0, <<>>)
    /\ UNCHANGED <<upd, runs, variant, vault, lastActiveFile, layoutReady, tasks, batches, gen, data>>

PutNumber(p, accepted) ==
    /\ settings' = IF accepted THEN [settings EXCEPT !.numberOfSentences = p.num]
                               ELSE settings
    /\ data' = IF accepted THEN Saved(settings') ELSE data
    /\ step' = NewStep("numberOfSentences", 0,
                       IF accepted THEN <<>> ELSE <<"invalidNumber">>)

\* The settings tab: the number-of-sentences field changes to value.
SetNumberOfSentences(value) ==
    /\ PutNumber(ParseInt(value), AcceptsNumber(ParseInt(value)))
    /\ UNCHANGED <<upd, runs, variant, vault, lastActiveFile, layoutReady, tasks, batches, gen>>

SettingsNext ==
    \/ LoadSettings
    \/ \E value \in Inputs : SetNumberOfSentences(value)
    \/ \E k \in ApiKeys : SetApiKey(k)
    \/ \E v \in BOOLEAN : SetAutoUpdate(v)

SpecSettings == SettingsInit /\ [][SettingsNext]_vars

\* ------------------------------------------- handlers running side by side

\* Auto-update on, a key set: every handler goes as far as it can.
RaceInit ==
    /\ variant = "textrank"
    /\ settings = [DefaultSettings("textrank") EXCEPT !.apiKey = <<"k">>,
                                                      !.numberOfSentences = MaxK,
                                                      !.autoUpdateUntitledNotes = TRUE]
    /\ vault = InitialVault
    /\ lastActiveFile = 1
    /\ layoutReady = FALSE
    /\ tasks = [s \in Slots |-> Idle]
    /\ batches = [b \in BatchIds |-> NoBatch]
    /\ step = NoStep
    /\ gen = GenOff
    /\ data = Saved(settings)
    /\ runs = <<>>
    /\ upd = UpdOff

\* An active-leaf-change event while other handlers are suspended.
RaceLeafChange(newLeaf) ==
    /\ FreeSlots # {}
    /\ HandleActiveLeafChange(newLeaf)

\* The layout becomes ready while other handlers are suspended.
RaceLayoutReady(leaves) ==
    /\ FreeBatches # {}
    /\ OnLayoutReady(leaves)

RaceNext ==
    \/ \E newLeaf \in Leaves : RaceLeafChange(newLeaf)
    \/ \E f \in Files : RaceLayoutReady(<<f>>)
    \/ \E b \in BatchIds : PMapNext(b)
    \/ \E b \in BatchIds : PMapSettle(b)
    \/ \E s \in Slots : ReadReturn(s)
    \/ \E s \in Slots : OracleReturn(s)
    \/ \E s \in Slots, ok \in BOOLEAN : RenameReturn(s, ok)
    \/ \E v \in BOOLEAN : SetAutoUpdate(v)

SpecRace == RaceInit /\ [][RaceNext]_vars

\* ------------------------------------------- updateNoteTitle on its own

MaxTitleLen == 3

\* Characters of the titles drawn: the forbidden ones, line breaks, blanks,
\* a letter, a period.
TitleChars ==
    {"\\", "/", ":", "*", "?", "\"", "<", ">", "|", "\n", "\r", " ", "\t", "T", "."}

\* The strings generateTitle can return: trimmed, not empty.
Titles ==
    { t \in UNION { [1..n -> TitleChars] : n \in 1..MaxTitleLen } : Trim(t) = t }

UpdInit ==
    /\ variant \in Variants
    /\ settings = DefaultSettings(variant)
    /\ vault = InitialVault
    /\ lastActiveFile = 0
    /\ layoutReady = FALSE
    /\ tasks = [s \in Slots |-> Idle]
    /\ batches = [b \in BatchIds |-> NoBatch]
    /\ step = NoStep
    /\ gen = GenOff
    /\ data = Saved(settings)
    /\ runs = <<>>
    /\ upd \in { [UpdOff EXCEPT !.pc = "start", !.file = f, !.title = t] :
                    f \in Files, t \in Titles }

PutUpdate(u) ==
    upd' = [upd EXCEPT !.pc = IF u.rename THEN "rename" ELSE "done",
                       !.sanitized = u.sanitized, !.rename = u.rename,
                       !.notices = u.notices,
                       !.newPath = IF u.rename THEN NewPath(vault[upd.file], u.sanitized)
                                               ELSE <<>>]

\* updateNoteTitle(file, newTitle) up to its await of renameFile, or to its
\* return.
UpdBegin ==
    /\ upd.pc = "start"
    /\ PutUpdate(UpdateNoteTitleBegin(vault[upd.file], upd.title))
    /\ UNCHANGED <<variant, settings, vault, lastActiveFile, layoutReady, tasks,
                   batches, step, gen, data, runs>>

\* renameFile resolves or rejects.
UpdRename(ok) ==
    /\ upd.pc = "rename"
    /\ upd' = [upd EXCEPT !.pc = "done",
                          !.notices = @ \o RenameOutcome(vault[upd.file], upd.sanitized, ok).notices]
    /\ vault' = [vault EXCEPT ![upd.file].basename =
                    RenameOutcome(vault[upd.file], upd.sanitized, ok).basename]
    /\ UNCHANGED <<variant, settings, lastActiveFile, layoutReady, tasks,
                   batches, step, gen, data, runs>>

UpdNext ==
    \/ UpdBegin
    \/ \E ok \in BOOLEAN : UpdRename(ok)

SpecUpd == UpdInit /\ [][UpdNext]_vars

\* ------------------------------------------- generateTitle, call after call

MaxRuns == 3

\* Two documents of two sentences: of three words both, and of three words
\* and of one.
RunDocs ==
    { <<"a", " ", "b", " ", "c", ".", " ", "d", " ", "e", " ", "f", ".", " ">>,
      <<"d", " ", "e", " ", "f", ".", " ", "x", ".", " ">> }

\* The summarizer as designed gives the same answer for the same text and
\* the same K on every call; which answer is left open.  rs: the calls made
\* so far.
EngineAnswers(rs, text, K) ==
    IF \E i \in 1..Len(rs) : rs[i].text = text /\ rs[i].K = K
      THEN { rs[CHOOSE i \in 1..Len(rs) : rs[i].text = text /\ rs[i].K = K].summ }
      ELSE SummarizerOutcomes(text, K)

\* A summarizer kept from call to call, which still holds the text of the
\* call before.
SummarizerInputCarried(rs, noteContent) ==
    IF Len(rs) > 0
      THEN rs[Len(rs)].text \o ProcessedNoteContent(noteContent)
      ELSE ProcessedNoteContent(noteContent)

\* The text summarize is called with: every call builds its own parser,
\* similarity function and Summarizer, and hands it the filtered text of its
\* own document.
SummarizerInput(rs, noteContent) == ProcessedNoteContent(noteContent)

\* prompt of generateTitle: the instruction, the context in quotes.
Prompt(ctx) == <<"Based on the following key sentences, ... Key sentences: ", "\"">>
               \o ctx \o <<"\"">>

PutRun(noteContent, text, summ, g) ==
    runs' = Append(runs, [doc |-> noteContent, K |-> settings.numberOfSentences,
                          text |-> text, summ |-> summ, ctx |-> g.ctx,
                          call |-> g.call,
                          prompt |-> IF g.call THEN Prompt(g.ctx) ELSE <<>>])

\* One call of generateTitle(noteContent), up to its await of
\* model.generateContent or its return of null.
Summarize(noteContent) ==
    /\ Len(runs) < MaxRuns
    /\ \E summ \in (IF variant = "textrank"
                      THEN EngineAnswers(runs, SummarizerInput(runs, noteContent),
                                         settings.numberOfSentences)
                      ELSE {NoSummary}) :
          PutRun(noteContent, SummarizerInput(runs, noteContent), summ,
                 GenerateTitleBegin(variant, settings.apiKey, noteContent,
                                    settings.numberOfSentences, summ))
    /\ UNCHANGED <<upd, variant, settings, vault, lastActiveFile, layoutReady, tasks,
                   batches, step, gen, data>>

RunsInit ==
    /\ variant \in Variants
    /\ settings \in GenSettings
    /\ vault = InitialVault
    /\ lastActiveFile = 0
    /\ layoutReady = FALSE
    /\ tasks = [s \in Slots |-> Idle]
    /\ batches = [b \in BatchIds |-> NoBatch]
    /\ step = NoStep
    /\ gen = GenOff
    /\ data = Saved(settings)
    /\ runs = <<>>
    /\ upd = UpdOff

RunsNext ==
    \/ \E noteContent \in RunDocs : Summarize(noteContent)
    \/ \E value \in {v \in Inputs : Len(v) <= 1} : SetNumberOfSentences(value)

SpecRuns == RunsInit /\ [][RunsNext]_vars

\* ----------------------------------------------------------- batch runs

\* The mappers of batch b that are in progress.
Running(b) == {s \in Slots : tasks[s].batch = b /\ tasks[s].pc \in Suspended}

Has(q, x) == \E i \in 1..Len(q) : q[i] = x

\* C1: in every batch run (files-menu batch, startup batch) at no moment are
\* two documents of the batch in progress; pMap takes the documents one by one
\* in the order given, the next one only when the pipeline of the one before
\* has ended, each position of the batch exactly once, and a batch that has
\* ended has taken all of them.
C1_StrictlySequential ==
    /\ [](\A b \in BatchIds :
            /\ Cardinality(Running(b)) <= 1
            /\ batches[b].pc = "done" => batches[b].next = Len(batches[b].items))
    /\ [][\A b \in BatchIds :
            (/\ batches[b].pc = "running"
             /\ batches'[b].pc = "running"
             /\ batches'[b].next # batches[b].next)
            => /\ batches'[b].next = batches[b].next + 1
               /\ batches'[b].items = batches[b].items
               /\ Running(b) = {}
               /\ step'.act = "mapper"
               /\ tasks'[step'.slot].batch = b
               /\ FilePath(vault[tasks'[step'.slot].file])
                    = FilePath(vault[batches[b].items[batches'[b].next]])]_vars

\* The second document of a batch is in progress.
C1_Witness ==
    \E b \in BatchIds :
        /\ batches[b].pc = "running"
        /\ batches[b].next = 2
        /\ Running(b) # {}

\* The last step was a failure in the pipeline of a batch document: the read
\* threw, the oracle call failed, or the rename was rejected.
BatchFailure(s) ==
    /\ step.slot = s
    /\ tasks[s].batch # 0
    /\ \/ step.threw
       \/ step.act = "oracle" /\ step.isNull

\* C2: a failure in the pipeline of one document of a batch never rejects the
\* mapper or the batch: the failure is shown in a notice, that document's run
\* is over, the batch is still running and pMap can take the next document if
\* there is one; a batch that has ended has taken every document.
C2_FailureIsolated ==
    /\ \A s \in Slots : tasks[s].pc # "rejected"
    /\ \A b \in BatchIds :
          /\ batches[b].pc # "rejected"
          /\ batches[b].pc = "done" => batches[b].next = Len(batches[b].items)
    /\ \A s \in Slots :
          BatchFailure(s) =>
            /\ step.notices # <<>>
            /\ tasks[s].pc = "done"
            /\ batches[tasks[s].batch].pc = "running"
            /\ batches[tasks[s].batch].next < Len(batches[tasks[s].batch].items)
                 => ENABLED PMapNext(tasks[s].batch)

\* A document of a batch has just failed and a later document is waiting.
C2_Witness ==
    \E s \in Slots :
        /\ BatchFailure(s)
        /\ batches[tasks[s].batch].next < Len(batches[tasks[s].batch].items)

\* C3 as stated: every batch that has ended has shown a final summary notice.
C3_AlwaysSummary ==
    \A b \in BatchIds :
        batches[b].pc = "done" =>
            \/ Has(batches[b].log, "finished")
            \/ Has(batches[b].log, "startupSummary")

\* C3, amended: with every awaited call ending, every batch that runs
\* eventually ends; the files-menu batch that has ended has shown its
\* "Finished" notice, and the startup batch that has ended has shown its summary
\* exactly when it renamed at least one note.
C3_CompletesAndReports ==
    /\ [](\A b \in BatchIds :
            batches[b].pc = "done" =>
              /\ batches[b].kind = "filesMenu" => Has(batches[b].log, "finished")
              /\ batches[b].kind = "startup" =>
                   (Has(batches[b].log, "startupSummary") <=> batches[b].count > 0))
    /\ \A b \in BatchIds : (batches[b].pc = "running") ~> (batches[b].pc = "done")

\* A startup batch has ended without renaming anything.
C3_Witness ==
    \E b \in BatchIds :
        /\ batches[b].pc = "done"
        /\ batches[b].kind = "startup"
        /\ batches[b].count = 0
        /\ Len(batches[b].items) > 0

\* ------------------------------------------------------- pipeline runs

CallOrder == <<"read", "extract", "oracle", "rename">>

Rank(c) == CHOOSE k \in 1..Len(CallOrder) : CallOrder[k] = c

Count(q, x) == Cardinality({i \in 1..Len(q) : q[i] = x})

\* The answer is a JSON object whose title is a string with a visible
\* character.
GoodTitle(r) ==
    /\ r.kind = "text"
    /\ r.top = "object"
    /\ r.titleType = "string"
    /\ NonBlank(r.str)

\* C4: in every pipeline run the calls come in the order read, extraction,
\* oracle, rename; the oracle is called only in the step in which extraction
\* produced a context with a visible character, a rename is requested only in
\* the step in which the oracle's answer carried a string title with a visible
\* character, and never in a run whose oracle call was not made or failed.
C4_StepOrder ==
    \A s \in Slots :
        /\ \A i, j \in 1..Len(tasks[s].calls) :
              i < j => Rank(tasks[s].calls[i]) < Rank(tasks[s].calls[j])
        /\ Has(tasks[s].calls, "oracle") => Has(tasks[s].calls, "extract")
        /\ Has(tasks[s].calls, "rename") => Has(tasks[s].calls, "oracle")
        /\ (step.slot = s /\ tasks[s].pc = "oracle") => step.ctxOk
        /\ (step.slot = s /\ tasks[s].pc = "rename") =>
              /\ step.act = "oracle"
              /\ ~step.isNull
              /\ GoodTitle(step.resp)
              /\ NonBlank(tasks[s].newName)
        /\ (step.slot = s /\ step.act = "oracle" /\ step.isNull) =>
              /\ tasks[s].pc = "done"
              /\ ~Has(tasks[s].calls, "rename")

\* A run has read, extracted, called the oracle and requested the rename.
C4_Witness ==
    \E s \in Slots :
        /\ tasks[s].pc = "rename"
        /\ tasks[s].calls = CallOrder

\* C5: a pipeline run calls the oracle at most once; the step in which the
\* oracle call failed (rejection, no response, malformed or schema-violating
\* answer) ends the run, with no rename requested.
C5_NoRetry ==
    \A s \in Slots :
        /\ Count(tasks[s].calls, "oracle") <= 1
        /\ (step.slot = s /\ step.act = "oracle" /\ step.isNull) =>
              /\ tasks[s].pc = "done"
              /\ Count(tasks[s].calls, "oracle") = 1
              /\ ~Has(tasks[s].calls, "rename")

\* The oracle call of a run has just failed.
C5_Witness ==
    \E s \in Slots :
        /\ step.slot = s
        /\ step.act = "oracle"
        /\ step.isNull
        /\ step.resp.kind = "reject"
        /\ tasks[s].pc = "done"

\* The notice generateTitle shows for an answer of one of the four shapes: no
\* response object, text that is not JSON, JSON without title, JSON whose title
\* is not a string; <<>> for any other answer.
ShapeNotice(r) ==
    IF r.kind = "noResponse" THEN <<"noResponse">>
    ELSE IF r.kind = "text" /\ r.top = "malformed" THEN <<"parseFailed">>
    ELSE IF r.kind = "text" /\ r.top = "object" /\ r.titleType \in {"absent", "number"}
      THEN <<"invalidTitle">>
    ELSE <<>>

\* C6: when the oracle's answer has no response object, is not valid JSON, has
\* no title or has a title that is not a string, generateTitle shows exactly
\* its failure notice, returns null, nothing is thrown, the run ends and no
\* rename is requested.
C6_OracleFailureShapes ==
    \A s \in Slots :
        (step.slot = s /\ step.act = "oracle" /\ ShapeNotice(step.resp) # <<>>) =>
            /\ step.notices = ShapeNotice(step.resp)
            /\ step.isNull
            /\ ~step.threw
            /\ tasks[s].pc = "done"
            /\ ~Has(tasks[s].calls, "rename")

\* The oracle has just answered with a title that is a number.
C6_Witness ==
    \E s \in Slots :
        /\ step.slot = s
        /\ step.act = "oracle"
        /\ step.resp.titleType = "number"
        /\ tasks[s].kind # "generateTitle"

\* generateTitle was entered in the last step with an empty API key.
EnteredWithoutKey(s) ==
    /\ step.slot = s
    /\ step.keyEmpty
    /\ ~step.blank \/ tasks[s].kind = "generateTitle"

\* C7: with an empty API key generateTitle shows the configuration notice and
\* the run ends with no extraction, no oracle call and no rename; in a batch
\* the batch keeps running and pMap can take the next document if there is one.
C7_EmptyApiKey ==
    \A s \in Slots :
        EnteredWithoutKey(s) =>
            /\ Has(step.notices, "apiKeyNotSet")
            /\ tasks[s].pc = "done"
            /\ ~Has(tasks[s].calls, "extract")
            /\ ~Has(tasks[s].calls, "oracle")
            /\ ~Has(tasks[s].calls, "rename")
            /\ tasks[s].batch # 0 =>
                  /\ batches[tasks[s].batch].pc = "running"
                  /\ batches[tasks[s].batch].next < Len(batches[tasks[s].batch].items)
                       => ENABLED PMapNext(tasks[s].batch)

\* A document of a batch has just met the empty API key, and a later document
\* is waiting.
C7_Witness ==
    \E s \in Slots :
        /\ EnteredWithoutKey(s)
        /\ tasks[s].batch # 0
        /\ batches[tasks[s].batch].next < Len(batches[tasks[s].batch].items)

\* C8 as stated: on a blank document every entry point and generateTitle itself
\* show an empty-note notice, and the run ends with no oracle call and no
\* rename.
C8_AlwaysEmptyNotice ==
    \A s \in Slots :
        (step.slot = s /\ step.blank) =>
            /\ Has(step.notices, "emptySkipped") \/ Has(step.notices, "noteEmpty")
            /\ tasks[s].pc = "done"
            /\ ~Has(tasks[s].calls, "oracle")
            /\ ~Has(tasks[s].calls, "rename")

\* C8, amended: on a blank document every entry point shows its empty-note
\* notice and ends without calling generateTitle; generateTitle itself shows
\* the empty-note notice when the API key is set, and the API key notice alone
\* when it is not; in every case the run ends with no context, no oracle
\* call and no rename.
C8_BlankDocument ==
    \A s \in Slots :
        (step.slot = s /\ step.blank) =>
            /\ tasks[s].pc = "done"
            /\ ~step.ctxOk
            /\ ~Has(tasks[s].calls, "oracle")
            /\ ~Has(tasks[s].calls, "rename")
            /\ tasks[s].kind # "generateTitle" =>
                  /\ step.notices = <<"emptySkipped">>
                  /\ ~Has(tasks[s].calls, "extract")
            /\ (tasks[s].kind = "generateTitle" /\ ~step.keyEmpty) =>
                  Has(step.notices, "noteEmpty")
            /\ (tasks[s].kind = "generateTitle" /\ step.keyEmpty) =>
                  step.notices = <<"apiKeyNotSet">>

\* The leaf-change handler has just read a blank note.
C8_Witness ==
    \E s \in Slots :
        /\ step.slot = s
        /\ step.blank
        /\ tasks[s].kind = "leaf"

\* --------------------------------------------------- extraction fallback

\* generateTitle has run its extraction on a document with a visible character
\* that gave no usable sentence: the summarizer threw or returned nothing
\* (main.ts), no piece between terminators has three words (part_000).
NoUsableSentence ==
    /\ gen.pc # "start"
    /\ gen.extracted
    /\ NonBlank(gen.doc)
    /\ IF variant = "textrank"
         THEN gen.summ.throws \/ Len(gen.summ.sentences) = 0
         ELSE ValidSentences(gen.doc) = <<>>

\* generateTitle has called the oracle.
OracleCalled == gen.pc = "oracle" \/ (gen.pc = "done" /\ gen.resp # NoResp)

FallbackNoticed ==
    \/ Has(gen.notices, "noSentencesFallback")
    \/ Has(gen.notices, "extractionErrorFallback")

\* C9 as stated: a document with a visible character and no usable sentence
\* gives the fallback with its notice, a context with a visible character, and
\* the oracle is called.
C9_FallbackNeverEmpty ==
    NoUsableSentence =>
        /\ gen.fallback
        /\ FallbackNoticed
        /\ NonBlank(gen.ctx)
        /\ OracleCalled

\* C9, amended: a document with a visible character and no usable sentence
\* gives the fallback with its notice, of at least one and at most 500
\* characters; the oracle is called exactly when the fallback holds a visible
\* character, and otherwise generateTitle shows its no-content notice and
\* returns null.
C9_FallbackOrNoContent ==
    NoUsableSentence =>
        /\ gen.fallback
        /\ FallbackNoticed
        /\ Len(gen.ctx) >= 1
        /\ Len(gen.ctx) <= FallbackLen
        /\ OracleCalled <=> NonBlank(gen.ctx)
        /\ ~NonBlank(gen.ctx) =>
              /\ gen.pc = "done"
              /\ gen.isNull
              /\ Has(gen.notices, "noContent")

\* The fallback of a document without usable sentence has gone to the oracle.
C9_Witness ==
    /\ NoUsableSentence
    /\ gen.fallback
    /\ gen.pc = "oracle"
    /\ variant = "simple"

\* C10: in main.ts, when the summarizer throws or returns nothing, the context
\* is the first 500 characters of the text without its image lines if that
\* text has a visible character, and the first 500 characters of the original
\* text otherwise; it is never longer than 500 characters.
C10_FallbackContext ==
    (/\ variant = "textrank"
     /\ gen.pc # "start"
     /\ gen.extracted
     /\ gen.summ.throws \/ Len(gen.summ.sentences) = 0)
    => /\ gen.fallback
       /\ Len(gen.ctx) <= FallbackLen
       /\ gen.ctx = IF NonBlank(ProcessedNoteContent(gen.doc))
                      THEN SubSeq(ProcessedNoteContent(gen.doc), 1,
                                  Min(FallbackLen, Len(ProcessedNoteContent(gen.doc))))
                      ELSE SubSeq(gen.doc, 1, Min(FallbackLen, Len(gen.doc)))

\* The fallback of a long document with an image line: filtered, then cut.
C10_Witness ==
    /\ variant = "textrank"
    /\ gen.fallback
    /\ Len(gen.doc) > FallbackLen
    /\ ProcessedNoteContent(gen.doc) # gen.doc
    /\ Len(gen.ctx) = FallbackLen

\* ----------------------------------------------------- image-only notes

\* generateTitle of main.ts has run its extraction on a document that has a
\* visible character and whose every line with one is an image embedding.
ImageOnlyExtracted ==
    /\ variant = "textrank"
    /\ gen.pc # "start"
    /\ gen.extracted
    /\ NonBlank(gen.doc)
    /\ ~NonBlank(ProcessedNoteContent(gen.doc))

\* C11 as stated: for a document of image-embedding lines only, generateTitle
\* signals an empty document and returns null, and the oracle is never called
\* with the image markup.
C11_ImageOnlyIsEmpty ==
    ImageOnlyExtracted =>
        /\ ~OracleCalled
        /\ gen.pc = "done"
        /\ gen.isNull

\* C11, amended: for a document of image-embedding lines only, the filter
\* leaves no visible text, the summarizer gives nothing, and the fallback is
\* cut from the original text: the context is the first 500 characters of the
\* document, image markup included, the fallback notice is shown, no empty-note
\* notice is shown, and the oracle is called.
C11_ImageOnlyFallsBack ==
    ImageOnlyExtracted =>
        /\ gen.fallback
        /\ FallbackNoticed
        /\ gen.ctx = SubSeq(gen.doc, 1, Min(FallbackLen, Len(gen.doc)))
        /\ NonBlank(gen.ctx)
        /\ OracleCalled
        /\ ~Has(gen.notices, "noteEmpty")
        /\ ~Has(gen.notices, "noContent")

\* The oracle has been called with the image markup of a one-line document.
C11_Witness ==
    /\ ImageOnlyExtracted
    /\ gen.doc = ImageLine
    /\ gen.pc = "oracle"
    /\ gen.ctx = ImageLine

\* ------------------------------------------------------ updateNoteTitle

\* updateNoteTitle was called in the last step, by the run in slot s: the
\* oracle's answer carried a string title that generateTitle returned non-empty.
UpdateCalled(s) ==
    /\ step.slot = s
    /\ step.act = "oracle"
    /\ tasks[s].kind # "generateTitle"
    /\ ~step.isNull
    /\ GoodTitle(step.resp)

\* C12: updateNoteTitle requests a rename only if the sanitized title is not
\* empty and the new path differs from the current one; a title that sanitizes
\* to nothing, or to the note's current name, requests no rename and is
\* reported with a "No changes made" notice, not as an error.
C12_RenameOnlyOnChange ==
    \A s \in Slots :
        UpdateCalled(s) =>
            /\ tasks[s].pc = "rename" =>
                  /\ SanitizeTitle(Trim(step.resp.str)) # <<>>
                  /\ NewPath(vault[tasks[s].file], SanitizeTitle(Trim(step.resp.str)))
                       # FilePath(vault[tasks[s].file])
            /\ (\/ SanitizeTitle(Trim(step.resp.str)) = <<>>
                \/ SanitizeTitle(Trim(step.resp.str)) = vault[tasks[s].file].basename)
               => /\ tasks[s].pc = "done"
                  /\ ~Has(tasks[s].calls, "rename")
                  /\ step.notices \in {<<"sanitizedEmpty">>, <<"alreadyTitled">>}
                  /\ ~step.threw

\* C13: a rename that the host rejects leaves every document's name and path
\* as they were, is reported by the one notice of updateNoteTitle's catch,
\* ends the run without the error going up to the caller, and leaves the
\* startup counter of its batch as it was.
C13_RenameRejected ==
    [][(step'.act = "rename" /\ step'.threw) =>
          /\ vault' = vault
          /\ step'.notices = <<"renameError">>
          /\ tasks[step'.slot].pc = "rename"
          /\ tasks'[step'.slot].pc = "done"
          /\ \A b \in BatchIds : batches'[b].count <= batches[b].count
          /\ tasks[step'.slot].kind = "startup" =>
                batches'[tasks[step'.slot].batch].count
                   = batches[tasks[step'.slot].batch].count]_vars

C13_Witness ==
    /\ step.act = "rename" /\ step.threw
    /\ tasks[step.slot].kind = "startup"
    /\ batches[tasks[step.slot].batch].count = 0

\* The notices that tell of progress; every other notice states an outcome.
ProgressNotices == {"generating", "checking", "batchStart"}

\* The run of an entry point in slot s has ended with the last step, after
\* it entered generateTitle.
EndedInGenerateTitle(s) ==
    /\ step.slot = s
    /\ tasks[s].pc = "done"
    /\ tasks[s].kind # "generateTitle"
    /\ \/ EnteredWithoutKey(s)
       \/ Has(tasks[s].calls, "extract")
       \/ Has(tasks[s].calls, "oracle")

\* C14: a run that entered generateTitle and ended without a rename has shown,
\* in the step that ended it, at least one notice that states the reason.
C14_EveryFailureNoticed ==
    \A s \in Slots :
        (EndedInGenerateTitle(s) /\ ~Has(step.notices, "titleUpdated")) =>
            \E i \in 1..Len(step.notices) : step.notices[i] \notin ProgressNotices

\* The one silent ending: a title made of whitespace only.
C14_SilentOnlyOnBlankTitle ==
    \A s \in Slots :
        (EndedInGenerateTitle(s) /\ ~Has(step.notices, "titleUpdated")) =>
            \/ \E i \in 1..Len(step.notices) : step.notices[i] \notin ProgressNotices
            \/ /\ step.act = "oracle" /\ step.resp.kind = "text"
               /\ step.resp.titleType = "string"
               /\ Len(step.resp.str) > 0 /\ ~NonBlank(step.resp.str)

\* The step from this state to the next is a successful rename by a startup
\* mapper of batch b, of the document that pMap took last.
RenamedInBatch(b) ==
    /\ step'.act = "rename" /\ ~step'.threw
    /\ step'.notices = <<"titleUpdated">>
    /\ tasks[step'.slot].pc = "rename"
    /\ tasks[step'.slot].kind = "startup"
    /\ tasks[step'.slot].batch = b
    /\ tasks[step'.slot].file = batches[b].items[batches[b].next]
    /\ vault'[tasks[step'.slot].file].basename = tasks[step'.slot].newName

\* The counter of a startup batch is between 0 and the number of documents
\* pMap has taken; no other batch counts; the summary of a batch that has
\* ended is shown if and only if the counter is positive.
CounterInRange ==
    \A b \in BatchIds :
        /\ batches[b].count \in 0..batches[b].next
        /\ batches[b].kind # "startup" => batches[b].count = 0
        /\ (batches[b].kind = "startup" /\ batches[b].pc = "done") =>
              (Has(batches[b].log, "startupSummary") <=> batches[b].count > 0)

\* C15: the startup counter starts at 0, grows by exactly one in the step in
\* which a mapper of its batch has the current document renamed, and changes
\* in no other step of a running batch; it never exceeds the number of
\* documents taken, and the summary is shown for a positive counter only.
C15_CounterCountsRenames ==
    /\ []CounterInRange
    /\ [][\A b \in BatchIds :
            /\ (batches[b].pc # "running" /\ batches'[b].pc = "running") =>
                  batches'[b].count = 0
            /\ (batches[b].pc = "running" /\ batches[b].kind = "startup") =>
                  IF RenamedInBatch(b)
                    THEN batches'[b].count = batches[b].count + 1
                    ELSE batches'[b].count = batches[b].count]_vars

C15_Witness ==
    \E b \in BatchIds :
        /\ batches[b].kind = "startup"
        /\ batches[b].count = 2
        /\ batches[b].pc = "done"
        /\ Has(batches[b].log, "startupSummary")

\* A startup batch that has gone through more documents than it has renamed.
C15_FewerThanTaken ==
    \E b \in BatchIds :
        /\ batches[b].kind = "startup"
        /\ batches[b].count = 1
        /\ batches[b].next = 2
        /\ batches[b].pc = "done"

LeafRunStarted ==
    /\ step'.slot \in Slots
    /\ tasks'[step'.slot].kind = "leaf"
    /\ tasks'[step'.slot].file = lastActiveFile
    /\ tasks'[step'.slot].pc = "read"
    /\ tasks'[step'.slot].calls = <<"read">>

\* The runs of the leaf-change handler: one read; no oracle call on a blank
\* note, one at most otherwise; a rename request only for a usable title, and
\* always for one that leaves a name other than the note's.
LeafRunInOrder ==
    \A s \in Slots : tasks[s].kind = "leaf" =>
        /\ Count(tasks[s].calls, "read") = 1
        /\ tasks[s].calls[1] = "read"
        /\ Count(tasks[s].calls, "oracle") <= 1
        /\ Count(tasks[s].calls, "rename") <= 1
        /\ Has(tasks[s].calls, "rename") => Has(tasks[s].calls, "oracle")
        /\ (step.slot = s /\ step.blank) =>
              tasks[s].pc = "done" /\ ~Has(tasks[s].calls, "oracle")
        /\ (step.slot = s /\ step.act = "oracle") =>
              /\ tasks[s].pc = "rename" => GoodTitle(step.resp)
              /\ (/\ GoodTitle(step.resp)
                  /\ SanitizeTitle(Trim(step.resp.str)) # <<>>
                  /\ SanitizeTitle(Trim(step.resp.str)) # vault[tasks[s].file].basename)
                 => tasks[s].pc = "rename"

\* C17: with auto-update enabled, a leaf change starts a run on the note that
\* was active before if and only if that note is still in the vault and its
\* name starts with "untitled" in any case; the run reads the note once,
\* calls the oracle at most once and only for a non-blank note, and requests
\* a rename only for a title the oracle returned.  No other leaf change
\* starts a run.
C17_AutoTitlePrevious ==
    /\ []LeafRunInOrder
    /\ [][step'.act = "leaf" =>
            /\ (settings.autoUpdateUntitledNotes /\ lastActiveFile # 0) =>
                  (LeafRunStarted <=>
                      /\ vault[lastActiveFile].exists
                      /\ Len(vault[lastActiveFile].basename) >= 8
                      /\ SubSeq(ToLowerCase(vault[lastActiveFile].basename), 1, 8)
                            = <<"u", "n", "t", "i", "t", "l", "e", "d">>)
            /\ ~LeafRunStarted =>
                  /\ step'.slot = 0
                  /\ \A s \in Slots : tasks'[s] = Live[s]]_vars

\* The handler has renamed the note that was active before.
C17_Witness ==
    /\ step.act = "rename" /\ ~step.threw
    /\ tasks[step.slot].kind = "leaf"
    /\ ~StartsWithUntitled(vault[tasks[step.slot].file].basename)

\* A leaf change away from a note that was deleted: nothing starts.
C17_DeletedSkipped ==
    /\ step.act = "leaf" /\ step.slot = 0
    /\ settings.autoUpdateUntitledNotes
    /\ \E f \in Files : ~vault[f].exists /\ StartsWithUntitled(vault[f].basename)

AutoKinds == {"leaf", "startup"}

RECURSIVE InOrder(_, _, _)
InOrder(parts, sep, i) ==
    IF i > Len(parts) THEN <<>>
    ELSE IF i = Len(parts) THEN parts[i]
    ELSE parts[i] \o sep \o InOrder(parts, sep, i + 1)

\* a can be had from b by leaving elements out.
RECURSIVE IsSubsequence(_, _)
IsSubsequence(a, b) ==
    IF Len(a) = 0 THEN TRUE
    ELSE IF Len(b) = 0 THEN FALSE
    ELSE IF Head(a) = Head(b) THEN IsSubsequence(Tail(a), Tail(b))
    ELSE IsSubsequence(a, Tail(b))

\* generateTitle has gone through its extraction step.
ExtractionDone == gen.pc \in {"oracle", "done"} /\ gen.extracted

\* The simple variant's qualifying sentences of the document drawn.
QualifyingSimple == ValidSentences(gen.doc)

\* The engine's qualifying sentences of the filtered text of the document drawn.
QualifyingEngine == ValidSentences(ProcessedNoteContent(gen.doc))

\* The summarizer gave an answer of the engine as designed.
EngineAnswered ==
    /\ variant = "textrank"
    /\ ~gen.summ.throws
    /\ gen.summ.sentences
          \in EngineSelections(ProcessedNoteContent(gen.doc), settings.numberOfSentences)

C20_OccurrenceOrder ==
    (ExtractionDone /\ ~gen.fallback) =>
        /\ variant = "textrank" =>
              /\ IsSubsequence(gen.summ.sentences,
                               SplitSentences(ProcessedNoteContent(gen.doc)))
              /\ gen.ctx = InOrder(gen.summ.sentences, <<" ">>, 1)
        /\ (variant = "simple" /\ Len(QualifyingSimple) > 0) =>
              \E n \in 1..Len(QualifyingSimple) :
                  /\ gen.ctx = InOrder(SubSeq(QualifyingSimple, 1, n), <<".", " ">>, 1)
                                 \o <<".">>
                  /\ IsSubsequence(SubSeq(QualifyingSimple, 1, n), SplitSentences(gen.doc))

\* Two different sentences were selected.
C20_Witness ==
    /\ ExtractionDone /\ ~gen.fallback
    /\ variant = "textrank"
    /\ Len(gen.summ.sentences) = 2
    /\ gen.summ.sentences[1] # gen.summ.sentences[2]
    /\ gen.ctx = gen.summ.sentences[1] \o <<" ">> \o gen.summ.sentences[2]

EndsWithAbbreviation(p) ==
    \E ab \in Abbreviations :
        /\ Len(p) >= Len(ab)
        /\ SubSeq(p, Len(p) - Len(ab) + 1, Len(p)) = ab
        /\ Len(p) > Len(ab) => p[Len(p) - Len(ab)] \in Whitespace

\* C23: the parser of the simple variant cuts no sentence at the period of a
\* known abbreviation: none of its sentences ends with one, and a document
\* that is one sentence with an abbreviation in it gives that sentence whole
\* as the context.
C23_AbbreviationGuard ==
    (variant = "simple" /\ ExtractionDone) =>
        /\ \A i \in 1..Len(SplitSentences(gen.doc)) :
              ~EndsWithAbbreviation(SplitSentences(gen.doc)[i])
        /\ gen.doc \in AbbrevDocs => gen.ctx = gen.doc

\* The line, without the whitespace around it, is one image-embedding marker
\* and nothing else: "![[", a reference that holds no "]]", and "]]".
SolelyOneMarker(line) ==
    /\ Len(Trim(line)) >= 5
    /\ SubSeq(Trim(line), 1, 3) = <<"!", "[", "[">>
    /\ SubSeq(Trim(line), Len(Trim(line)) - 1, Len(Trim(line))) = <<"]", "]">>
    /\ \A i \in 4..(Len(Trim(line)) - 3) :
          ~(Trim(line)[i] = "]" /\ Trim(line)[i + 1] = "]")
    /\ \A i \in 4..(Len(Trim(line)) - 2) : Trim(line)[i] \notin {"\n", "\r"}

\* The lines of the document drawn.
DocLines == SplitOn(gen.doc, {"\n"})

\* C24: the filtered text is the document's lines that are not solely one
\* image-embedding marker, each as it was and in the order it had, with the
\* line breaks between them: the lines that are solely a marker are gone, and
\* no other line is.
C24_FilterExact ==
    (variant = "textrank" /\ ExtractionDone) =>
        ProcessedNoteContent(gen.doc)
          = InOrder(Pick(DocLines, {i \in 1..Len(DocLines) : ~SolelyOneMarker(DocLines[i])}, 1),
                    <<"\n">>, 1)

\* What holds of the filter: the lines that are solely a marker are gone;
\* every line that does not both start with "![[" and end with "]]" is kept
\* as it was and in its order; a line lost beyond those starts with a marker
\* and ends with one.
C24_FilterRemovesMarkerToMarker ==
    (variant = "textrank" /\ ExtractionDone) =>
        ProcessedNoteContent(gen.doc)
          = InOrder(Pick(DocLines,
                         {i \in 1..Len(DocLines) :
                            \/ Len(Trim(DocLines[i])) < 5
                            \/ SubSeq(Trim(DocLines[i]), 1, 3) # <<"!", "[", "[">>
                            \/ SubSeq(Trim(DocLines[i]), Len(Trim(DocLines[i])) - 1,
                                      Len(Trim(DocLines[i]))) # <<"]", "]">>
                            \/ \E j \in 1..Len(DocLines[i]) : DocLines[i][j] = "\r"}, 1),
                    <<"\n">>, 1)

\* The title handed to renameFile, once updateNoteTitle asked for a rename.
RenameRequested == upd.pc \in {"rename", "done"} /\ upd.rename

\* C25: the sanitized title used for a rename holds none of \ / : * ? " < > |,
\* no newline and no carriage return, has no whitespace at either end, and
\* sanitizing it again returns it unchanged.
C25_SanitizedTitle ==
    RenameRequested =>
        /\ \A i \in 1..Len(upd.sanitized) :
              upd.sanitized[i] \notin Forbidden \cup {"\n", "\r"}
        /\ Len(upd.sanitized) > 0
        /\ upd.sanitized[1] \notin Whitespace
        /\ upd.sanitized[Len(upd.sanitized)] \notin Whitespace
        /\ SanitizeTitle(upd.sanitized) = upd.sanitized

\* A title with a forbidden character, then a line break inside, was
\* sanitized for a rename: the character is gone, the break is a space.
C25_Witness ==
    /\ RenameRequested
    /\ upd.title = <<"?", "\n", "T">>
    /\ upd.sanitized = <<"T">>

\* Index of the last ch in path, 0 when there is none.
RECURSIVE LastIndexOf(_, _)
LastIndexOf(path, ch) ==
    IF Len(path) = 0 THEN 0
    ELSE IF path[Len(path)] = ch THEN Len(path)
    ELSE LastIndexOf(SubSeq(path, 1, Len(path) - 1), ch)

\* The folder, the extension and the base name of a path of the vault.
FolderOf(path) ==
    IF LastIndexOf(path, "/") = 0 THEN <<>> ELSE SubSeq(path, 1, LastIndexOf(path, "/") - 1)
ExtensionOf(path) == SubSeq(path, LastIndexOf(path, ".") + 1, Len(path))
BaseNameOf(path) ==
    SubSeq(path, LastIndexOf(path, "/") + 1, LastIndexOf(path, ".") - 1)

\* C26: every rename request keeps the document where it is: the new path
\* has the folder and the extension of the old one and differs from it in
\* the base name only, whatever the title.
C26_RenameStaysInFolder ==
    RenameRequested =>
        /\ FolderOf(HostPath(upd.newPath)) = FolderOf(HostPath(FilePath(InitialVault[upd.file])))
        /\ ExtensionOf(upd.newPath) = InitialVault[upd.file].extension
        /\ BaseNameOf(HostPath(upd.newPath)) = upd.sanitized
        /\ BaseNameOf(HostPath(upd.newPath)) # InitialVault[upd.file].basename

\* A title with a path separator in it was used for the rename of the note
\* in the folder.
C26_Witness ==
    /\ RenameRequested
    /\ upd.file = 1
    /\ upd.title = <<".", "/", "T">>
    /\ upd.newPath = <<"d", "/", ".", "T", ".", "m", "d">>

\* Slot s asks the host for a rename in this step.
RenameRequestedBy(s) == tasks[s].pc # "rename" /\ tasks'[s].pc = "rename"

\* C27: an auto-update handler asks for a rename only of a note whose name
\* still starts with "untitled" when it asks.
C27_AutoRenameOnlyUntitled ==
    [][\A s \in Slots :
          (RenameRequestedBy(s) /\ tasks'[s].kind \in AutoKinds)
              => StartsWithUntitled(vault[tasks'[s].file].basename)]_vars

\* The startup batch b takes its next file in this step.
TakesNext(b) ==
    /\ LiveBatches[b].kind = "startup"
    /\ batches'[b].kind = "startup"
    /\ batches'[b].next = LiveBatches[b].next + 1

\* The file whose turn it is in batch b.
NextFile(b) == LiveBatches[b].items[LiveBatches[b].next + 1]

\* C28: when a file's turn arrives in the startup batch and the file is gone
\* or its name no longer starts with "untitled", the mapper returns at once:
\* no notice, no read, no oracle call, no rename, no change of the counter.
C28_StartupRecheck ==
    [][\A b \in BatchIds :
          (/\ TakesNext(b)
           /\ \/ ~vault[NextFile(b)].exists
              \/ ~StartsWithUntitled(vault[NextFile(b)].basename))
          => /\ step'.act = "mapper"
             /\ tasks'[step'.slot].pc = "done"
             /\ tasks'[step'.slot].calls = <<>>
             /\ step'.notices = <<>>
             /\ vault' = vault
             /\ batches'[b].count = LiveBatches[b].count]_vars

\* The mapper has just skipped a note that an earlier turn of the same batch
\* renamed.
C28_Witness ==
    /\ step.act = "mapper"
    /\ tasks[step.slot].kind = "startup"
    /\ tasks[step.slot].pc = "done"
    /\ tasks[step.slot].calls = <<>>
    /\ vault[tasks[step.slot].file].exists
    /\ vault[tasks[step.slot].file].basename = <<"T">>

\* The mapper has just skipped a note that was deleted before its turn.
C28_DeletedReached ==
    /\ step.act = "mapper"
    /\ tasks[step.slot].kind = "startup"
    /\ tasks[step.slot].pc = "done"
    /\ tasks[step.slot].calls = <<>>
    /\ ~vault[tasks[step.slot].file].exists

\* A handler started on note f in this step.
LeafHandlerStarted(f) ==
    \E s \in Slots :
        /\ Live[s].pc = "idle"
        /\ tasks'[s].kind = "leaf"
        /\ tasks'[s].pc # "idle"
        /\ tasks'[s].file = f

\* Some slot holds a handler suspended at an await.
SomeSuspended == \E s \in Slots : Live[s].pc \in Suspended

\* C29: after every active-leaf-change event, whatever the setting and
\* whether or not an earlier handler is still suspended, lastActiveFile is
\* the file of the new leaf if that is a markdown view with a file, and
\* null otherwise; the only note a handler starts on is the one
\* lastActiveFile held before the event; the handler is suspended only after
\* lastActiveFile has its new value.
C29_LastActiveFile ==
    [][step'.act = "leaf" =>
          /\ lastActiveFile' = (IF step'.leaf.view = "markdown" /\ step'.leaf.file # 0
                                  THEN step'.leaf.file ELSE 0)
          /\ \A f \in Files : LeafHandlerStarted(f) => f = lastActiveFile
          /\ \A s \in Slots : tasks'[s].pc \in Suspended => Live[s].pc \in Suspended \/ s = step'.slot
       ]_vars

\* A leaf change to a view that is not a markdown view, while an earlier
\* handler was suspended, has started a second handler on the note that was
\* active before it.
C29_Witness ==
    /\ step.act = "leaf"
    /\ step.leaf.view = "other"
    /\ step.leaf.file # 0
    /\ lastActiveFile = 0
    /\ \A s \in Slots : tasks[s].kind = "leaf" /\ tasks[s].pc \in Suspended

\* A leaf change made with the setting off and a handler suspended has
\* stored the new leaf's note.
C29_OffReached ==
    /\ step.act = "leaf"
    /\ ~settings.autoUpdateUntitledNotes
    /\ SomeSuspended
    /\ step.leaf.view = "markdown"
    /\ lastActiveFile # 0
    /\ lastActiveFile = step.leaf.file

====
